---- MODULE Spec2Model ----
(***************************************************************************)
(* SpecScore: the seven criteria evaluators (lib/evaluators), the scorer   *)
(* that aggregates them (lib/reporter: scoreSpec, calculateGrade,          *)
(* generateOverallFeedback) and the validation entry point                 *)
(* (lib/validator: validateSpec).                                          *)
(*                                                                         *)
(* An OpenAPI document is a record.  Strings the code inspects character   *)
(* by character (path templates, status codes) are sequences of one-       *)
(* character strings; strings the code only measures are their length;     *)
(* strings the code only compares are TLA+ strings.  Keyed mappings whose  *)
(* keys the code never reads (schemas, security schemes, media types,      *)
(* parameters) are sequences of their values.                              *)
(***************************************************************************)
EXTENDS Integers, Sequences, FiniteSets, TLC

VARIABLES
    pc,          \* position of the running call
    document,    \* the decoded document (NoDocument before parse)
    criteria,    \* the criterion results collected so far, in call order
    totalScore,  \* ScoringResult.totalScore
    grade,       \* ScoringResult.grade
    feedback,    \* ScoringResult.feedback
    prevScore,   \* the argument of the preceding calculateGrade call
    prevGrade,   \* the grade the preceding calculateGrade call returned
    argv,        \* the command line: the command and the options the user gave
    exitCode,    \* the exit code of the process (Running: it has not ended)
    source,      \* the file path or URL the call was given
    content,     \* the text retrieved from the source (NoContent before retrieval)
    result,      \* validateSpec's ValidationResult
    fault,       \* what went wrong at a collaborator in this call ("": nothing)
    pending,     \* the exception in flight inside validateSpec (NoError: none)
    escaped,     \* the exception that left validateSpec or scoreSpec (NoError: none)
    calls        \* the collaborator and evaluator calls made so far, in order

vars == <<pc, document, criteria, totalScore, grade, feedback,
          prevScore, prevGrade, argv, exitCode, source, content, result, fault,
          pending, escaped, calls>>

(***************************************************************************)
(* JavaScript numbers.  Every score is a sum of quotients of small         *)
(* counts, so it is kept as an exact fraction n/d; d = 0 is NaN (the       *)
(* result of 0 / 0), and it is absorbing for + and *.  The integer-valued  *)
(* fields of a result (score, percentage, totalScore) hold a natural       *)
(* number or NaN.  The fractions are exact: the rounding error of the      *)
(* doubles is left out, so a value the doubles put just below a half       *)
(* (57.49999...) rounds up here.                                           *)
(***************************************************************************)
NaN == -1

Rat(n, d) == [n |-> n, d |-> d]

Num(k) == Rat(k, 1)

\* x / y for counts x, y.  A positive count is never divided by zero.
Div(x, y) == IF y = 0 THEN Rat(0, 0) ELSE Rat(x, y)

\* r * k for an integer k
Times(r, k) == Rat(r.n * k, r.d)

\* a + b
Plus(a, b) ==
    IF a.d = 0 \/ b.d = 0 THEN Rat(0, 0)
    ELSE Rat(a.n * b.d + b.n * a.d, a.d * b.d)

\* Math.min(k, r) for an integer k: NaN if r is NaN
MathMin(k, r) ==
    IF r.d = 0 THEN r
    ELSE IF r.n > k * r.d THEN Num(k) ELSE r

\* a < b; false when either side is NaN
Less(a, b) == a.d # 0 /\ b.d # 0 /\ a.n * b.d < b.n * a.d

\* Math.round(r): the nearest integer, halves rounded up; NaN stays NaN
MathRound(r) ==
    IF r.d = 0 THEN NaN
    ELSE (2 * r.n + r.d) \div (2 * r.d)

\* sum + x on integer-or-NaN values
NumAdd(a, b) == IF a = NaN \/ b = NaN THEN NaN ELSE a + b

\* a >= k on an integer-or-NaN value; false for NaN
NumGe(a, k) == a # NaN /\ a >= k

\* a < k on an integer-or-NaN value; false for NaN
NumLt(a, k) == a # NaN /\ a < k

(***************************************************************************)
(* Generic folds.                                                          *)
(***************************************************************************)
RECURSIVE SumOver(_, _)
SumOver(S, f) ==
    IF S = {} THEN 0
    ELSE LET x == CHOOSE y \in S : TRUE
         IN f[x] + SumOver(S \ {x}, f)

Count(seq, Test(_)) == Cardinality({i \in DOMAIN seq : Test(seq[i])})

Range(seq) == {seq[i] : i \in DOMAIN seq}

\* a feedback or suggestion line: the template text and the numbers put in it
Msg(t, a) == [text |-> t, args |-> a]

Line(t) == Msg(t, <<>>)

When(cond, lines) == IF cond THEN lines ELSE <<>>

Texts(lines) == {lines[i].text : i \in DOMAIN lines}

(***************************************************************************)
(* The document tree (openapi-types' OpenAPIV3.Document, as far as the     *)
(* code reads it).                                                          *)
(*   document  [openapi, info: [description, version], servers, security,  *)
(*              externalDocs, paths: [present, entries], components]       *)
(*   entry     [path, item: [description, ops]]   one key of paths         *)
(*   ops       sequence of [method, operation]    the item's method keys   *)
(*   operation [description, tags, parameters, requestBody, responses,     *)
(*              security]                                                   *)
(*   response  [code, description, hasContent, content]                    *)
(*   media type [schema, example]                                          *)
(*   schema    [type, properties, additionalProperties]                    *)
(* A description is its length (0: absent or empty); tags and servers are  *)
(* their lengths; a parameter is whether it carries a description.         *)
(***************************************************************************)
Methods5 == {"get", "post", "put", "patch", "delete"}

\* the methods of an operations walk that leaves options, head and trace out
MethodsWithoutOptionsHeadTrace == {"get", "post", "put", "patch", "delete"}

Methods8 == {"get", "post", "put", "patch", "delete", "options", "head", "trace"}

\* the operations of the document under the given methods, as <<path index, key index>>
OpKeys(doc, methods) ==
    {k \in (DOMAIN doc.paths.entries) \X (1..5) :
        /\ k[2] \in DOMAIN doc.paths.entries[k[1]].item.ops
        /\ doc.paths.entries[k[1]].item.ops[k[2]].method \in methods}

OpAt(doc, k) == doc.paths.entries[k[1]].item.ops[k[2]].operation

\* the method keys of a path item
MethodKeys(item) == {item.ops[j].method : j \in DOMAIN item.ops}

HasSchema(mediaType) == mediaType.schema

HasExample(mediaType) == mediaType.example

\* 'content' in operation.requestBody
HasBody(operation) == operation.requestBody.kind = "content"

\* the responses of an operation that have a content key
ContentResponses(operation) ==
    {j \in DOMAIN operation.responses : operation.responses[j].hasContent}

\* score / maxScore * 100, rounded
Percentage(score, maxScore) == MathRound(Times(Rat(score.n, score.d * maxScore), 100))

CriteriaScore(name, score, maxScore, fb, sg) ==
    [name |-> name, score |-> MathRound(score), maxScore |-> maxScore,
     percentage |-> Percentage(score, maxScore), feedback |-> fb, suggestions |-> sg]

(***************************************************************************)
(* Schema & Types (20 points)                                              *)
(***************************************************************************)
IsProperlyTyped(schema) ==
    schema.type # "" /\ schema.type = "object" /\ schema.properties # "absent"

IsFreeForm(schema) ==
    /\ schema.type # ""
    /\ ~IsProperlyTyped(schema)
    /\ schema.type = "object"
    /\ schema.properties = "absent"
    /\ ~schema.additionalProperties

\* the media types of one operation that carry a schema
SchemaUsages(operation) ==
    (IF HasBody(operation) THEN Count(operation.requestBody.content, HasSchema) ELSE 0)
    + SumOver(ContentResponses(operation),
              [j \in ContentResponses(operation) |->
                  Count(operation.responses[j].content, HasSchema)])

\* the 'properly typed' term with the ratio taken over one schema too many
properlyTypedTermOffByOne(properlyTypedSchemas, schemaCount) ==
    IF properlyTypedSchemas > 0
    THEN MathMin(10, Times(Div(properlyTypedSchemas, schemaCount + 1), 10))
    ELSE Num(0)

\* the 'properly typed' term added to the score
properlyTypedTerm(properlyTypedSchemas, schemaCount) ==
    IF properlyTypedSchemas > 0
    THEN MathMin(10, Times(Div(properlyTypedSchemas,
                               IF schemaCount > 1 THEN schemaCount ELSE 1), 10))
    ELSE Num(0)

scoreSchemaAndTypes(doc) ==
    LET maxScore == 20
        schemas == doc.components.schemas
        schemaCount == Len(schemas)
        properlyTypedSchemas == Count(schemas, IsProperlyTyped)
        freeFormObjects == Count(schemas, IsFreeForm)
        keys == OpKeys(doc, Methods5)
        totalOperations == Cardinality(keys)
        operationsWithSchemas ==
            SumOver(keys, [k \in keys |-> SchemaUsages(OpAt(doc, k))])
        schemaUsageRatio == Div(operationsWithSchemas, totalOperations * 2)
        s1 == IF schemaCount > 0 THEN Num(5) ELSE Num(0)
        s2 == Plus(s1, properlyTypedTerm(properlyTypedSchemas, schemaCount))
        score == IF totalOperations > 0
                 THEN Plus(s2, MathMin(5, Times(schemaUsageRatio, 5)))
                 ELSE s2
        fb == (IF schemaCount > 0
               THEN <<Msg("Found {0} schema definitions", <<schemaCount>>)>>
               ELSE <<Line("No schema definitions found")>>)
              \o When(properlyTypedSchemas > 0,
                      <<Msg("{0} schemas have proper type definitions",
                            <<properlyTypedSchemas>>)>>)
              \o When(freeFormObjects > 0,
                      <<Msg("{0} schemas are free-form objects without properties",
                            <<freeFormObjects>>)>>)
              \o When(totalOperations > 0,
                      <<Msg("{0}% of operations use proper schemas",
                            <<MathRound(Times(schemaUsageRatio, 100))>>)>>)
        sg == When(schemaCount = 0,
                   <<Line("Define reusable schemas in components.schemas")>>)
              \o When(freeFormObjects > 0,
                      <<Line("Define specific properties for object schemas instead of using free-form objects")>>)
              \o When(Less(score, Rat(maxScore * 5, 10)),
                      <<Line("Increase use of strongly-typed schemas throughout the API")>>)
    IN CriteriaScore("Schema & Types", score, maxScore, fb, sg)

(***************************************************************************)
(* Descriptions & Documentation (20 points)                                *)
(***************************************************************************)
HasDescription(x) == x.description > 0

IsDescribed(parameter) == parameter

scoreDescriptions(doc) ==
    LET maxScore == 20
        entries == IF doc.paths.present THEN doc.paths.entries ELSE <<>>
        keys == IF doc.paths.present THEN OpKeys(doc, Methods8) ELSE {}
        totalPaths == Len(entries)
        pathsWithDescriptions ==
            Cardinality({i \in DOMAIN entries : entries[i].item.description > 0})
        totalOperations == Cardinality(keys)
        operationsWithDescriptions ==
            Cardinality({k \in keys : OpAt(doc, k).description > 5})
        totalParameters ==
            SumOver(keys, [k \in keys |-> Len(OpAt(doc, k).parameters)])
        parametersWithDescriptions ==
            SumOver(keys, [k \in keys |-> Count(OpAt(doc, k).parameters, IsDescribed)])
        totalResponses ==
            SumOver(keys, [k \in keys |-> Len(OpAt(doc, k).responses)])
        responsesWithDescriptions ==
            SumOver(keys, [k \in keys |-> Count(OpAt(doc, k).responses, HasDescription)])
        meaningful == doc.info.description > 10
        s1 == IF meaningful THEN Num(3) ELSE Num(0)
        s2 == IF totalOperations > 0
              THEN Plus(s1, Times(Div(operationsWithDescriptions, totalOperations), 8))
              ELSE s1
        s3 == IF totalParameters > 0
              THEN Plus(s2, Times(Div(parametersWithDescriptions, totalParameters), 4))
              ELSE s2
        s4 == IF totalResponses > 0
              THEN Plus(s3, Times(Div(responsesWithDescriptions, totalResponses), 3))
              ELSE s3
        score == IF totalPaths > 0
                 THEN Plus(s4, Times(Div(pathsWithDescriptions, totalPaths), 2))
                 ELSE s4
        fb == When(meaningful, <<Line("API has a meaningful description")>>)
              \o When(totalOperations > 0,
                      <<Msg("{0}/{1} operations have descriptions",
                            <<operationsWithDescriptions, totalOperations>>)>>)
              \o When(totalParameters > 0,
                      <<Msg("{0}/{1} parameters have descriptions",
                            <<parametersWithDescriptions, totalParameters>>)>>)
              \o When(totalResponses > 0,
                      <<Msg("{0}/{1} responses have descriptions",
                            <<responsesWithDescriptions, totalResponses>>)>>)
        sg == When(~meaningful,
                   <<Line("Add a comprehensive description to the API info object")>>)
              \o When(Less(score, Rat(maxScore * 7, 10)),
                      <<Line("Add descriptions to all operations, parameters, and responses"),
                        Line("Use meaningful descriptions that explain the purpose and behavior")>>)
    IN CriteriaScore("Descriptions & Documentation", score, maxScore, fb, sg)

(***************************************************************************)
(* Paths & Operations (15 points)                                          *)
(* A path is the sequence of its characters.                               *)
(***************************************************************************)
LowerCase == {"a", "b", "c", "d", "e", "f", "g", "h", "i", "j", "k", "l", "m",
              "n", "o", "p", "q", "r", "s", "t", "u", "v", "w", "x", "y", "z"}

UpperCase == {"A", "B", "C", "D", "E", "F", "G", "H", "I", "J", "K", "L", "M",
              "N", "O", "P", "Q", "R", "S", "T", "U", "V", "W", "X", "Y", "Z"}

Digits == {"0", "1", "2", "3", "4", "5", "6", "7", "8", "9"}

\* the first index of character c in s, 0 if there is none
IndexOf(s, c) ==
    IF \E i \in DOMAIN s : s[i] = c
    THEN CHOOSE i \in DOMAIN s : s[i] = c /\ \A j \in 1..(i - 1) : s[j] # c
    ELSE 0

\* path.split('/')
RECURSIVE Split(_)
Split(s) ==
    LET i == IndexOf(s, "/")
    IN IF i = 0 THEN <<s>>
       ELSE <<SubSeq(s, 1, i - 1)>> \o Split(SubSeq(s, i + 1, Len(s)))

\* a filter that keeps the parameter segments
pathSegmentsKeepingParameters(path) ==
    SelectSeq(Split(path), LAMBDA segment : segment # <<>>)

\* .filter((segment) => segment && !segment.startsWith('{'))
pathSegments(path) ==
    SelectSeq(Split(path), LAMBDA segment : segment # <<>> /\ Head(segment) # "{")

\* segment.includes('_') || /[A-Z]/.test(segment) || !/^[a-z0-9-]+$/.test(segment)
IsBadSegment(segment) ==
    \/ \E i \in DOMAIN segment : segment[i] = "_"
    \/ \E i \in DOMAIN segment : segment[i] \in UpperCase
    \/ ~(/\ segment # <<>>
         /\ \A i \in DOMAIN segment : segment[i] \in LowerCase \cup Digits \cup {"-"})

isWellNamed(path) ==
    \A i \in DOMAIN pathSegments(path) : ~IsBadSegment(pathSegments(path)[i])

\* path.replace(/\{[^}]+\}/g, '{id}')
RECURSIVE normalizedPath(_)
normalizedPath(s) ==
    IF s = <<>> THEN <<>>
    ELSE LET close == IndexOf(s, "}")
         IN IF Head(s) = "{" /\ close > 2
            THEN <<"{", "i", "d", "}">> \o normalizedPath(SubSeq(s, close + 1, Len(s)))
            ELSE <<Head(s)>> \o normalizedPath(Tail(s))

scorePathsAndOperations(doc) ==
    LET maxScore == 15
        entries == doc.paths.entries
        pathCount == Len(entries)
        wellNamedPaths ==
            Cardinality({i \in DOMAIN entries : isWellNamed(entries[i].path)})
        withMethods ==
            {i \in DOMAIN entries : MethodKeys(entries[i].item) \cap Methods5 # {}}
        pathPatterns == {normalizedPath(entries[i].path) : i \in withMethods}
        crudPaths ==
            Cardinality({i \in withMethods :
                            {"get", "post"} \subseteq MethodKeys(entries[i].item)})
        overlappingPaths == pathCount - Cardinality(pathPatterns)
        s1 == Times(Div(wellNamedPaths, pathCount), 7)
        s2 == IF crudPaths > 0
              THEN Plus(s1, MathMin(5, Num(crudPaths * 2)))
              ELSE s1
        score == IF overlappingPaths = 0 THEN Plus(s2, Num(3)) ELSE s2
        fb == <<Msg("{0}/{1} paths follow RESTful naming conventions",
                    <<wellNamedPaths, pathCount>>)>>
              \o When(crudPaths > 0,
                      <<Msg("Found {0} CRUD-pattern endpoints", <<crudPaths>>)>>)
              \o (IF overlappingPaths = 0
                  THEN <<Line("No overlapping or redundant paths detected")>>
                  ELSE <<Msg("{0} potentially overlapping paths detected",
                             <<overlappingPaths>>)>>)
        sg == When(overlappingPaths # 0,
                   <<Line("Review path structure for redundancy")>>)
              \o When(Less(score, Rat(maxScore * 6, 10)),
                      <<Line("Use RESTful naming conventions (lowercase, hyphens, nouns)"),
                        Line("Implement consistent CRUD operations for resources")>>)
    IN IF ~doc.paths.present
       THEN [name |-> "Paths & Operations", score |-> 0, maxScore |-> maxScore,
             percentage |-> 0, feedback |-> <<Line("No paths defined")>>,
             suggestions |-> <<Line("Define API paths and operations")>>]
       ELSE CriteriaScore("Paths & Operations", score, maxScore, fb, sg)

(***************************************************************************)
(* Response Codes (15 points)                                              *)
(* A status code is the sequence of its characters.                        *)
(***************************************************************************)
appropriateSuccessCodes ==
    {<<"2", "0", "0">>, <<"2", "0", "1">>, <<"2", "0", "2">>, <<"2", "0", "4">>}

appropriateErrorCodes ==
    {<<"4", "0", "0">>, <<"4", "0", "1">>, <<"4", "0", "3">>, <<"4", "0", "4">>,
     <<"4", "0", "9">>, <<"4", "2", "2">>, <<"5", "0", "0">>}

\* code.startsWith(c)
StartsWith(code, c) == code # <<>> /\ Head(code) = c

\* Object.keys(operation.responses)
ResponseKeys(operation) == {operation.responses[j].code : j \in DOMAIN operation.responses}

hasSuccess(operation) == \E code \in ResponseKeys(operation) : StartsWith(code, "2")

\* an error response counted only when its code is one of the appropriate ones
hasAppropriateError(operation) == ResponseKeys(operation) \cap appropriateErrorCodes # {}

hasError(operation) ==
    \E code \in ResponseKeys(operation) : StartsWith(code, "4") \/ StartsWith(code, "5")

scoreResponseCodes(doc) ==
    LET maxScore == 15
        keys == OpKeys(doc, Methods5)
        totalOperations == Cardinality(keys)
        operationsWithSuccess == Cardinality({k \in keys : hasSuccess(OpAt(doc, k))})
        operationsWithErrors == Cardinality({k \in keys : hasError(OpAt(doc, k))})
        operationsWithMultipleResponses ==
            Cardinality({k \in keys : Len(OpAt(doc, k).responses) > 1})
        statusCodesUsed == UNION {ResponseKeys(OpAt(doc, k)) : k \in keys}
        score == IF totalOperations > 0
                 THEN Plus(Plus(Times(Div(operationsWithSuccess, totalOperations), 6),
                                Times(Div(operationsWithErrors, totalOperations), 6)),
                           Times(Div(operationsWithMultipleResponses, totalOperations), 3))
                 ELSE Num(0)
        hasAppropriateSuccess == appropriateSuccessCodes \cap statusCodesUsed # {}
        hasAppropriateErrors == appropriateErrorCodes \cap statusCodesUsed # {}
        fb == When(totalOperations > 0,
                   <<Msg("{0}/{1} operations define success responses",
                         <<operationsWithSuccess, totalOperations>>),
                     Msg("{0}/{1} operations define error responses",
                         <<operationsWithErrors, totalOperations>>),
                     Msg("{0}/{1} operations define multiple response codes",
                         <<operationsWithMultipleResponses, totalOperations>>)>>)
              \o When(hasAppropriateSuccess /\ hasAppropriateErrors,
                      <<Line("Uses appropriate HTTP status codes")>>)
        sg == When(~(hasAppropriateSuccess /\ hasAppropriateErrors),
                   <<Line("Use standard HTTP status codes (200, 201, 400, 404, 500, etc.)")>>)
              \o When(Less(score, Rat(maxScore * 5, 10)),
                      <<Line("Define both success and error responses for all operations"),
                        Line("Use specific status codes rather than just 200 and 500")>>)
    IN IF ~doc.paths.present
       THEN [name |-> "Response Codes", score |-> 0, maxScore |-> maxScore,
             percentage |-> 0, feedback |-> <<Line("No paths defined")>>,
             suggestions |-> <<Line("Define API operations with proper response codes")>>]
       ELSE CriteriaScore("Response Codes", score, maxScore, fb, sg)

(***************************************************************************)
(* Examples & Samples (10 points)                                          *)
(***************************************************************************)
\* Object.values(content).some((mediaType) => mediaType.example || mediaType.examples)
\* an example asked of every media type of the content
hasExampleInAll(mediaTypes) == \A i \in DOMAIN mediaTypes : HasExample(mediaTypes[i])

hasExampleIn(mediaTypes) == \E i \in DOMAIN mediaTypes : HasExample(mediaTypes[i])

scoreExamples(doc) ==
    LET maxScore == 10
        keys == OpKeys(doc, Methods5)
        withBodies == {k \in keys : HasBody(OpAt(doc, k))}
        totalOperationsWithBodies == Cardinality(withBodies)
        operationsWithRequestExamples ==
            Cardinality({k \in withBodies : hasExampleIn(OpAt(doc, k).requestBody.content)})
        totalResponses ==
            SumOver(keys, [k \in keys |-> Cardinality(ContentResponses(OpAt(doc, k)))])
        operationsWithResponseExamples ==
            SumOver(keys, [k \in keys |->
                Cardinality({j \in ContentResponses(OpAt(doc, k)) :
                                hasExampleIn(OpAt(doc, k).responses[j].content)})])
        s1 == IF totalOperationsWithBodies > 0
              THEN Times(Div(operationsWithRequestExamples, totalOperationsWithBodies), 5)
              ELSE Num(0)
        score == IF totalResponses > 0
                 THEN Plus(s1, Times(Div(operationsWithResponseExamples, totalResponses), 5))
                 ELSE s1
        fb == When(totalOperationsWithBodies > 0,
                   <<Msg("{0}/{1} request bodies have examples",
                         <<operationsWithRequestExamples, totalOperationsWithBodies>>)>>)
              \o When(totalResponses > 0,
                      <<Msg("{0}/{1} responses have examples",
                            <<operationsWithResponseExamples, totalResponses>>)>>)
        sg == When(Less(score, Rat(maxScore * 3, 10)),
                   <<Line("Add examples to request bodies and response content"),
                     Line("Examples help developers understand expected data formats")>>)
    IN IF ~doc.paths.present
       THEN [name |-> "Examples & Samples", score |-> 0, maxScore |-> maxScore,
             percentage |-> 0, feedback |-> <<Line("No paths defined")>>,
             suggestions |-> <<Line("Add request and response examples")>>]
       ELSE CriteriaScore("Examples & Samples", score, maxScore, fb, sg)

(***************************************************************************)
(* Security (10 points)                                                    *)
(* document.security and operation.security are "absent", "empty" (an      *)
(* empty list) or "set".                                                   *)
(***************************************************************************)
\* the test turned around: if (!operation.security)
hasOperationSecurityNegated(operation) == operation.security = "absent"

\* if (operation.security): an empty list counts
\* a per-operation security entry counted only when its list is non-empty
hasNonEmptyOperationSecurity(operation) == operation.security = "set"

hasOperationSecurity(operation) == operation.security # "absent"

scoreSecurity(doc) ==
    LET maxScore == 10
        schemeCount == doc.components.securitySchemes
        keys == IF doc.paths.present THEN OpKeys(doc, Methods5) ELSE {}
        totalOperations == Cardinality(keys)
        operationsWithSecurity ==
            Cardinality({k \in keys : hasOperationSecurity(OpAt(doc, k))})
        s1 == IF schemeCount > 0 THEN MathMin(5, Num(schemeCount * 2)) ELSE Num(0)
        s2 == IF doc.security = "set" THEN Plus(s1, Num(3)) ELSE s1
        score == IF totalOperations > 0 /\ operationsWithSecurity > 0
                 THEN Plus(s2, Times(Div(operationsWithSecurity, totalOperations), 2))
                 ELSE s2
        fb == When(schemeCount > 0,
                   <<Msg("Found {0} security scheme(s) defined", <<schemeCount>>)>>)
              \o When(doc.security = "set",
                      <<Line("Global security requirements defined")>>)
              \o When(totalOperations > 0 /\ operationsWithSecurity > 0,
                      <<Msg("{0}/{1} operations have specific security requirements",
                            <<operationsWithSecurity, totalOperations>>)>>)
        sg == When(schemeCount = 0,
                   <<Line("Define security schemes in components.securitySchemes")>>)
              \o When(score.d # 0 /\ score.n = 0,
                      <<Line("Implement authentication and authorization schemes"),
                        Line("Consider API keys, OAuth2, or JWT tokens")>>)
    IN CriteriaScore("Security", score, maxScore, fb, sg)

(***************************************************************************)
(* Best Practices (10 points)                                              *)
(* components holds, for each reusable category, the number of its         *)
(* entries (schemas: the entries themselves).                              *)
(***************************************************************************)
\* the populated categories, a populated components object counting as one more
componentsWithContentAndItself(components) ==
    LET populated ==
            (IF Len(components.schemas) > 0 THEN {"schemas"} ELSE {})
            \cup {type \in {"responses", "parameters", "examples", "requestBodies", "headers"} :
                     components[type] > 0}
    IN IF populated = {} THEN {} ELSE populated \cup {"components"}

componentsWithContent(components) ==
    (IF Len(components.schemas) > 0 THEN {"schemas"} ELSE {})
    \cup {type \in {"responses", "parameters", "examples", "requestBodies", "headers"} :
             components[type] > 0}

scoreBestPractices(doc) ==
    LET maxScore == 10
        keys == IF doc.paths.present THEN OpKeys(doc, Methods5) ELSE {}
        totalOperations == Cardinality(keys)
        operationsWithTags == Cardinality({k \in keys : OpAt(doc, k).tags > 0})
        reused == Cardinality(componentsWithContent(doc.components))
        versioned == doc.info.version # "" /\ doc.info.version # "1.0.0"
        s1 == IF doc.servers > 0 THEN Num(2) ELSE Num(0)
        s2 == IF versioned THEN Plus(s1, Num(2)) ELSE s1
        s3 == IF totalOperations > 0
              THEN Plus(s2, Times(Div(operationsWithTags, totalOperations), 3))
              ELSE s2
        s4 == IF reused > 1 THEN Plus(s3, Num(2)) ELSE s3
        score == IF doc.externalDocs THEN Plus(s4, Num(1)) ELSE s4
        fb == When(doc.servers > 0, <<Msg("{0} server(s) defined", <<doc.servers>>)>>)
              \o When(versioned, <<Line("API version: {version}")>>)
              \o When(totalOperations > 0,
                      <<Msg("{0}/{1} operations have tags",
                            <<operationsWithTags, totalOperations>>)>>)
              \o When(reused > 1,
                      <<Msg("Uses {0} component types for reusability", <<reused>>)>>)
              \o When(doc.externalDocs, <<Line("External documentation referenced")>>)
        sg == When(doc.servers = 0, <<Line("Define servers array with API base URLs")>>)
              \o When(Less(score, Rat(maxScore * 4, 10)),
                      <<Line("Add tags to organize operations"),
                        Line("Use components for reusable elements"),
                        Line("Define multiple servers for different environments")>>)
    IN CriteriaScore("Best Practices", score, maxScore, fb, sg)

(***************************************************************************)
(* The scorer (lib/reporter).                                              *)
(***************************************************************************)
\* calculateGrade with the A band starting above 80
calculateGradeStrict(score) ==
    IF score # NaN /\ score > 80 THEN "A"
    ELSE IF NumGe(score, 70) THEN "B"
    ELSE IF NumGe(score, 60) THEN "C"
    ELSE IF NumGe(score, 50) THEN "D"
    ELSE "F"

calculateGrade(score) ==
    IF NumGe(score, 80) THEN "A"
    ELSE IF NumGe(score, 70) THEN "B"
    ELSE IF NumGe(score, 60) THEN "C"
    ELSE IF NumGe(score, 50) THEN "D"
    ELSE "F"

\* criteria.reduce((sum, criteria) => sum + criteria.score, 0)
RECURSIVE sumScores(_)
sumScores(cs) ==
    IF cs = <<>> THEN 0
    ELSE NumAdd(sumScores(SubSeq(cs, 1, Len(cs) - 1)), cs[Len(cs)].score)

\* the percentage below which a criterion is a weak area
weakThreshold == 50

\* .filter((c) => c.percentage < 50)
weakFilter(cs) == SelectSeq(cs, LAMBDA c : NumLt(c.percentage, weakThreshold))

\* the comparator turned around: (a, b) => b.percentage - a.percentage
RECURSIVE sortByPercentageDescending(_)
sortByPercentageDescending(cs) ==
    IF cs = <<>> THEN <<>>
    ELSE LET i == CHOOSE j \in DOMAIN cs :
                      /\ \A k \in DOMAIN cs : cs[j].percentage >= cs[k].percentage
                      /\ \A k \in 1..(j - 1) : cs[k].percentage < cs[j].percentage
         IN <<cs[i]>> \o sortByPercentageDescending(SubSeq(cs, 1, i - 1) \o SubSeq(cs, i + 1, Len(cs)))

\* .sort((a, b) => a.percentage - b.percentage): ascending, equal elements keep their order
RECURSIVE sortByPercentage(_)
sortByPercentage(cs) ==
    IF cs = <<>> THEN <<>>
    ELSE LET i == CHOOSE j \in DOMAIN cs :
                      /\ \A k \in DOMAIN cs : cs[j].percentage <= cs[k].percentage
                      /\ \A k \in 1..(j - 1) : cs[k].percentage > cs[j].percentage
         IN <<cs[i]>> \o sortByPercentage(SubSeq(cs, 1, i - 1) \o SubSeq(cs, i + 1, Len(cs)))

\* .slice(0, 3)
slice3(cs) == SubSeq(cs, 1, IF Len(cs) < 3 THEN Len(cs) ELSE 3)

weakAreas(cs) == slice3(sortByPercentage(weakFilter(cs)))

\* the narrative chosen by bands ten points above those of the grade, as the
\* superseded variant of the scorer chose it (part_003:127-153)
narrativeShifted(score) ==
    IF NumGe(score, 90)
    THEN "Excellent! Your OpenAPI specification follows industry best practices."
    ELSE IF NumGe(score, 80)
    THEN "Good job! Your API specification is well-structured with minor areas for improvement."
    ELSE IF NumGe(score, 70)
    THEN "Your API specification is decent but has several areas that could be improved."
    ELSE IF NumGe(score, 60)
    THEN "Your API specification needs significant improvements to meet best practices."
    ELSE "Your API specification requires major improvements across multiple areas."

narrative(score) ==
    IF NumGe(score, 80)
    THEN "Excellent! Your OpenAPI specification follows industry best practices."
    ELSE IF NumGe(score, 70)
    THEN "Good job! Your API specification is well-structured with minor areas for improvement."
    ELSE IF NumGe(score, 60)
    THEN "Your API specification is decent but has several areas that could be improved."
    ELSE IF NumGe(score, 50)
    THEN "Your API specification needs significant improvements to meet best practices."
    ELSE "Your API specification requires major improvements across multiple areas."

\* the weak-area line carries the names it joins with ', '
generateOverallFeedback(score, cs) ==
    <<Line(narrative(score))>>
    \o When(Len(weakAreas(cs)) > 0,
            <<Msg("Focus on improving: {names}",
                  [i \in DOMAIN weakAreas(cs) |-> weakAreas(cs)[i].name])>>)

(***************************************************************************)
(* The documents the model scores.                                         *)
(***************************************************************************)
MaxPaths == 2

MaxSchemas == 2

MediaType(schema, example) == [schema |-> schema, example |-> example]

Response(code, description, hasContent, mediaTypes) ==
    [code |-> code, description |-> description,
     hasContent |-> hasContent, content |-> mediaTypes]

NoBody == [kind |-> "absent", content |-> <<>>]

RefBody == [kind |-> "ref", content |-> <<>>]

Body(mediaTypes) == [kind |-> "content", content |-> mediaTypes]

\* get of the minimal fixture: one described 200 response, nothing else
opMinimal ==
    [description |-> 0, tags |-> 0, parameters |-> <<>>, requestBody |-> NoBody,
     responses |-> <<Response(<<"2", "0", "0">>, 7, FALSE, <<>>)>>,
     security |-> "absent"]

opDocumented ==
    [description |-> 12, tags |-> 1, parameters |-> <<TRUE>>,
     requestBody |-> Body(<<MediaType(TRUE, TRUE)>>),
     responses |-> <<Response(<<"2", "0", "0">>, 9, TRUE, <<MediaType(TRUE, TRUE)>>),
                     Response(<<"4", "0", "4">>, 9, TRUE, <<MediaType(TRUE, FALSE)>>)>>,
     security |-> "set"]

opPartial ==
    [description |-> 5, tags |-> 0, parameters |-> <<TRUE, FALSE>>,
     requestBody |-> Body(<<MediaType(TRUE, FALSE), MediaType(FALSE, FALSE)>>),
     responses |-> <<Response(<<"2", "0", "1">>, 0, TRUE, <<MediaType(FALSE, FALSE)>>),
                     Response(<<"d", "e", "f", "a", "u", "l", "t">>, 4, FALSE, <<>>)>>,
     security |-> "empty"]

opErrorOnly ==
    [description |-> 6, tags |-> 2, parameters |-> <<FALSE>>, requestBody |-> RefBody,
     responses |-> <<Response(<<"5", "0", "3">>, 3, TRUE, <<>>)>>,
     security |-> "absent"]

Op(method, operation) == [method |-> method, operation |-> operation]

Item(description, ops) == [description |-> description, ops |-> ops]

ItemPool ==
    {Item(0, <<Op("get", opMinimal)>>),
     Item(0, <<Op("get", opMinimal), Op("post", opMinimal)>>),
     Item(8, <<Op("get", opDocumented), Op("post", opPartial)>>),
     Item(8, <<Op("get", opDocumented), Op("put", opDocumented), Op("delete", opDocumented)>>),
     Item(0, <<Op("head", opDocumented)>>),
     Item(0, <<Op("delete", opErrorOnly), Op("patch", opPartial), Op("trace", opMinimal)>>),
     Item(3, <<>>)}

\* "/test", "/users/{id}", "/users/{userId}", "/User_Data", in key order
PathPool ==
    <<(<<"/", "t", "e", "s", "t">>),
      (<<"/", "u", "s", "e", "r", "s", "/", "{", "i", "d", "}">>),
      (<<"/", "u", "s", "e", "r", "s", "/", "{", "u", "s", "e", "r", "I", "d", "}">>),
      (<<"/", "U", "s", "e", "r", "_", "D", "a", "t", "a">>)>>

Entry(path, item) == [path |-> path, item |-> item]

\* the path mappings of n keys, keys taken from PathPool in its order
RECURSIVE EntriesFrom(_, _)
EntriesFrom(first, n) ==
    IF n = 0 THEN {<<>>}
    ELSE UNION {{<<Entry(PathPool[i], item)>> \o rest :
                    item \in ItemPool, rest \in EntriesFrom(i + 1, n - 1)} :
                i \in first..Len(PathPool)}

NoPaths == [present |-> FALSE, entries |-> <<>>]

PathsPool ==
    {NoPaths}
    \cup {[present |-> TRUE, entries |-> e] :
             e \in UNION {EntriesFrom(1, n) : n \in 0..MaxPaths}}

\* the paths of the minimal fixture, an empty mapping, no mapping, and three richer ones
CorePaths ==
    {NoPaths,
     [present |-> TRUE, entries |-> <<>>],
     [present |-> TRUE, entries |-> <<Entry(PathPool[1], Item(0, <<Op("get", opMinimal)>>))>>],
     [present |-> TRUE,
      entries |-> <<Entry(PathPool[1], Item(8, <<Op("get", opDocumented), Op("post", opPartial)>>)),
                    Entry(PathPool[2], Item(0, <<Op("delete", opErrorOnly), Op("patch", opPartial),
                                                 Op("trace", opMinimal)>>))>>],
     [present |-> TRUE,
      entries |-> <<Entry(PathPool[2], Item(8, <<Op("get", opDocumented), Op("put", opDocumented),
                                                 Op("delete", opDocumented)>>)),
                    Entry(PathPool[3], Item(0, <<Op("get", opMinimal)>>))>>]}

Schema(type, properties, additionalProperties) ==
    [type |-> type, properties |-> properties,
     additionalProperties |-> additionalProperties]

\* a typed object, an object with an empty properties map, two objects without
\* properties, a string, and a $ref (no type key)
SchemaPool ==
    {Schema("object", "nonempty", FALSE), Schema("object", "empty", FALSE),
     Schema("object", "absent", FALSE), Schema("object", "absent", TRUE),
     Schema("string", "absent", FALSE), Schema("", "absent", FALSE)}

RECURSIVE SchemaLists(_)
SchemaLists(n) ==
    IF n = 0 THEN {<<>>}
    ELSE {<<schema>> \o rest : schema \in SchemaPool, rest \in SchemaLists(n - 1)}

Components(schemas, securitySchemes, responses, parameters) ==
    [schemas |-> schemas, securitySchemes |-> securitySchemes,
     responses |-> responses, parameters |-> parameters,
     examples |-> 0, requestBodies |-> 0, headers |-> 0]

NoComponents == Components(<<>>, 0, 0, 0)

\* the document above its paths
Top(openapi, description, version, servers, security, externalDocs, components) ==
    [openapi |-> openapi, info |-> [description |-> description, version |-> version],
     servers |-> servers, security |-> security, externalDocs |-> externalDocs,
     components |-> components]

\* document.openapi: "3.0.3", "3.1.0", and the field missing (a Swagger 2.0 document)
V303 == <<"3", ".", "0", ".", "3">>

V310 == <<"3", ".", "1", ".", "0">>

NoOpenapi == <<>>

\* the top of the minimal fixture
MinimalTop == Top(V303, 0, "1.0.0", 0, "absent", FALSE, NoComponents)

RichTop ==
    Top(V310, 40, "2.1.0", 2, "set", TRUE,
        Components(<<Schema("object", "nonempty", FALSE), Schema("string", "absent", FALSE)>>,
                   1, 1, 0))

CoreTops == {MinimalTop, RichTop}

\* tops that vary one group of fields of the minimal top
TopPool ==
    CoreTops
    \cup {Top(V303, d, "1.0.0", 0, "absent", FALSE, NoComponents) : d \in {0, 10, 11}}
    \cup {Top(V303, 0, "1.0.0", 0, "absent", FALSE, Components(schemas, 0, 0, 0)) :
             schemas \in UNION {SchemaLists(n) : n \in 0..MaxSchemas}}
    \cup {Top(V303, 0, "1.0.0", 0, security, FALSE, Components(<<>>, schemes, 0, 0)) :
             security \in {"absent", "empty", "set"}, schemes \in 0..3}
    \cup {Top(openapi, 0, version, servers, "absent", externalDocs,
              Components(schemas, 0, responses, parameters)) :
             openapi \in {V303, V310}, version \in {"", "1.0.0", "2.1.0"},
             servers \in {0, 1}, externalDocs \in BOOLEAN,
             schemas \in SchemaLists(0) \cup {<<Schema("string", "absent", FALSE)>>},
             responses \in {0, 1}, parameters \in {0, 2}}

Doc(top, paths) ==
    [openapi |-> top.openapi, info |-> top.info, servers |-> top.servers,
     security |-> top.security, externalDocs |-> top.externalDocs,
     components |-> top.components, paths |-> paths]

\* every pooled top over the core paths, and the core tops over every pooled paths mapping
Documents ==
    {Doc(top, paths) : top \in TopPool, paths \in CorePaths}
    \cup {Doc(top, paths) : top \in CoreTops, paths \in PathsPool}

NoDocument == Doc(MinimalTop, NoPaths)

(***************************************************************************)
(* The parser (lib/parser) and the values that flow through a call.  The   *)
(* text a source yields is its leading characters and whether JSON.parse   *)
(* and js-yaml's load accept it.                                           *)
(***************************************************************************)
NoStats == [paths |-> 0, operations |-> 0, schemas |-> 0, parameters |-> 0]

\* const result = { isValid: false, errors: [], warnings: [] }
NoResult == [isValid |-> FALSE, errors |-> <<>>, warnings |-> <<>>,
             hasDocument |-> FALSE, hasStats |-> FALSE, stats |-> NoStats]

NoError == [thrown |-> FALSE, isError |-> FALSE, name |-> "", message |-> Line("")]

NoSource == <<>>

NoContent == [head |-> <<>>, json |-> FALSE, yaml |-> FALSE]

Thrown(isError, name, message) ==
    [thrown |-> TRUE, isError |-> isError, name |-> name, message |-> message]

Returned(value) == [threw |-> FALSE, error |-> NoError, value |-> value]

Raised(error) == [threw |-> TRUE, error |-> error, value |-> NoContent]

\* s.startsWith(prefix)
HasPrefix(s, prefix) ==
    /\ Len(s) >= Len(prefix)
    /\ SubSeq(s, 1, Len(prefix)) = prefix

\* s.trim(), as far as the leading characters go
RECURSIVE TrimStart(_)
TrimStart(s) ==
    IF s # <<>> /\ Head(s) \in {" ", "\n"} THEN TrimStart(Tail(s)) ELSE s

\* "https://h/a", "http://h/a", "a.json", "httpd.yaml"
Sources ==
    {<<"h", "t", "t", "p", "s", ":", "/", "/", "h", "/", "a">>,
     <<"h", "t", "t", "p", ":", "/", "/", "h", "/", "a">>,
     <<"a", ".", "j", "s", "o", "n">>,
     <<"h", "t", "t", "p", "d", ".", "y", "a", "m", "l">>}

\* a JSON object, one after blank lines, a YAML flow mapping, a brace that
\* neither decoder accepts, block YAML, and text js-yaml rejects
Contents ==
    {[head |-> <<"{", "\"">>, json |-> TRUE, yaml |-> TRUE],
     [head |-> <<"\n", " ", "{">>, json |-> TRUE, yaml |-> TRUE],
     [head |-> <<"{", "a">>, json |-> FALSE, yaml |-> TRUE],
     [head |-> <<"{", "{">>, json |-> FALSE, yaml |-> FALSE],
     [head |-> <<"o", "p">>, json |-> FALSE, yaml |-> TRUE],
     [head |-> <<"a", ":", "\t">>, json |-> FALSE, yaml |-> FALSE]}

\* what fetch settles with: a rejection (network failure, the 10 s
\* AbortSignal timeout, a value that is not an Error) or a response
FetchOutcomes ==
    {[rejection |-> e, status |-> 0, body |-> NoContent] :
        e \in {Thrown(TRUE, "TypeError", Line("fetch failed")),
               Thrown(TRUE, "TimeoutError", Line("The operation was aborted due to timeout")),
               Thrown(FALSE, "", Line("ECONNRESET"))}}
    \cup {[rejection |-> NoError, status |-> st, body |-> NoContent] : st \in {404, 500}}
    \cup {[rejection |-> NoError, status |-> 200, body |-> c] : c \in Contents}

\* what readFile settles with: an error code or the file's text
ReadOutcomes ==
    {[code |-> c, data |-> NoContent] : c \in {"ENOENT", "EACCES", "EISDIR"}}
    \cup {[code |-> "", data |-> c] : c \in Contents}

\* what SwaggerParser.validate settles with: the validated document (NoError)
\* or one of its errors, a plain Error, or a value that is not an Error
ValidateOutcomes ==
    {NoError,
     Thrown(TRUE, "ParserError", Line("Error parsing document")),
     Thrown(TRUE, "ResolverError", Line("Error resolving $ref pointer")),
     Thrown(TRUE, "ValidatorError", Line("Swagger schema validation failed")),
     Thrown(TRUE, "SyntaxError", Line("is not a valid Openapi API definition")),
     Thrown(TRUE, "Error", Line("Validation failed")),
     Thrown(FALSE, "", Line("validation failed"))}

\* the documents a source may decode to: the core documents under every
\* openapi field, the missing one (Swagger 2.0) included
ValidatorDocuments ==
    {[Doc(top, paths) EXCEPT !.openapi = openapi] :
        top \in CoreTops, paths \in CorePaths, openapi \in {V303, V310, NoOpenapi}}

\* a natural number in decimal digits
RECURSIVE ToChars(_)
ToChars(k) ==
    LET digit == <<"0", "1", "2", "3", "4", "5", "6", "7", "8", "9">>[(k % 10) + 1]
    IN IF k < 10 THEN <<digit>> ELSE Append(ToChars(k \div 10), digit)

\* how a fetch failed: rejected, timed out, or answered outside 200..299
fetchFault(outcome) ==
    IF outcome.rejection.thrown
    THEN IF outcome.rejection.name = "TimeoutError" THEN "timeout" ELSE "rejected"
    ELSE IF ~(outcome.status \in 200..299) THEN "status" ELSE ""

isUrl(src) ==
    \/ HasPrefix(src, <<"h", "t", "t", "p", "s", ":", "/", "/">>)
    \/ HasPrefix(src, <<"h", "t", "t", "p", ":", "/", "/">>)

\* parseUrl without the test of response.ok
parseUrlAnyStatus(url, outcome) ==
    IF outcome.rejection.thrown
    THEN IF outcome.rejection.isError
         THEN Raised(outcome.rejection)
         ELSE Raised(Thrown(TRUE, "Error",
                            Msg("Network error: {error}",
                                <<(<<outcome.rejection.message.text>>)>>)))
    ELSE Returned(outcome.body)

parseUrl(url, outcome) ==
    IF outcome.rejection.thrown
    THEN IF outcome.rejection.isError
         THEN Raised(outcome.rejection)
         ELSE Raised(Thrown(TRUE, "Error",
                            Msg("Network error: {error}",
                                <<(<<outcome.rejection.message.text>>)>>)))
    ELSE IF ~(outcome.status \in 200..299)
    THEN Raised(Thrown(TRUE, "Error",
                       Msg("HTTP {status}: {statusText}", <<ToChars(outcome.status)>>)))
    ELSE Returned(outcome.body)

parseFile(filePath, outcome) ==
    IF outcome.code = "ENOENT"
    THEN Raised(Thrown(TRUE, "Error", Msg("File not found: {filePath}", <<filePath>>)))
    ELSE IF outcome.code = "EACCES"
    THEN Raised(Thrown(TRUE, "Error", Msg("Permission denied: {filePath}", <<filePath>>)))
    ELSE IF outcome.code # ""
    THEN Raised(Thrown(TRUE, "Error", Msg("Failed to read file: {error}", <<(<<outcome.code>>)>>)))
    ELSE Returned(outcome.data)

\* TRUE when the text decodes; JSON.parse when the trimmed text starts with a
\* brace, js-yaml's load otherwise
\* a decoder that falls back to js-yaml when JSON.parse rejects the text
decodesWithFallback(text) ==
    IF StartsWith(TrimStart(text.head), "{") THEN text.json \/ text.yaml ELSE text.yaml

decodes(text) ==
    IF StartsWith(TrimStart(text.head), "{") THEN text.json ELSE text.yaml

parseContent(text, src) ==
    IF decodes(text)
    THEN Returned(text)
    ELSE Raised(Thrown(TRUE, "Error",
                       Msg("Failed to parse OpenAPI spec from {source}: {cause}", <<src>>)))

\* OpenAPIParser.parse: retrieval by the form of the source, then decoding
parse(src, fetched, read) ==
    LET retrieved == IF isUrl(src) THEN parseUrl(src, fetched) ELSE parseFile(src, read)
    IN IF retrieved.threw THEN retrieved ELSE parseContent(retrieved.value, src)

(***************************************************************************)
(* scoreSpec: parse, the seven evaluators in the order of the code, then   *)
(* the total, the grade and the overall feedback.                          *)
(***************************************************************************)
\* the process has not exited
Running == -1

NoArgv == [command |-> "", hasFormat |-> FALSE, format |-> "",
           hasOutput |-> FALSE, output |-> ""]

\* a call made from code, not from the command line
NoCommand ==
    /\ argv = NoArgv
    /\ exitCode = Running

\* the variables scoreSpec does not use
IdleValidator ==
    /\ source = NoSource
    /\ content = NoContent
    /\ result = NoResult
    /\ fault = ""
    /\ pending = NoError
    /\ escaped = NoError

IdleGrader ==
    /\ prevScore = 0
    /\ prevGrade = ""

\* the documents a call may decode: every pooled document for a call made
\* from code, the core ones for a run of the report command
DecodedDocuments ==
    IF argv.command = "report"
    THEN {Doc(top, paths) : top \in CoreTops, paths \in CorePaths}
    ELSE Documents

\* scoreSpec(source) called from code
Init ==
    /\ pc = "parse"
    /\ source \in Sources
    /\ content = NoContent
    /\ document = NoDocument
    /\ criteria = <<>>
    /\ totalScore = 0
    /\ grade = ""
    /\ feedback = <<>>
    /\ result = NoResult
    /\ fault = ""
    /\ pending = NoError
    /\ escaped = NoError
    /\ calls = <<>>
    /\ IdleGrader
    /\ NoCommand

\* an evaluator call whose result depends on the results collected before it
EvaluateCarrying(at, next, criterion) ==
    /\ pc = at
    /\ pc' = next
    /\ criteria' = Append(criteria, [criterion EXCEPT !.maxScore = @ + Len(criteria)])
    /\ calls' = Append(calls, criterion.name)
    /\ UNCHANGED <<document, totalScore, grade, feedback,
                   prevScore, prevGrade, argv, exitCode, source, content, result, fault, pending, escaped>>

\* an evaluator call that empties the paths it has walked
EvaluateConsuming(at, next, criterion) ==
    /\ pc = at
    /\ pc' = next
    /\ criteria' = Append(criteria, criterion)
    /\ calls' = Append(calls, criterion.name)
    /\ document' = [document EXCEPT !.paths = NoPaths]
    /\ UNCHANGED <<totalScore, grade, feedback,
                   prevScore, prevGrade, argv, exitCode, source, content, result, fault, pending, escaped>>

\* one evaluator call: its result joins the results collected so far
Evaluate(at, next, criterion) ==
    /\ pc = at
    /\ pc' = next
    /\ criteria' = Append(criteria, criterion)
    /\ calls' = Append(calls, criterion.name)
    /\ UNCHANGED <<document, totalScore, grade, feedback,
                   prevScore, prevGrade, argv, exitCode, source, content, result, fault, pending, escaped>>

\* const document = await this.parser.parse(source): an error of the parser
\* leaves scoreSpec, which has no catch
Step1Parse ==
    /\ pc = "parse"
    /\ \E fetched \in FetchOutcomes, read \in ReadOutcomes :
          LET r == parse(source, fetched, read)
          IN IF r.threw
             THEN /\ escaped' = r.error
                  /\ fault' = "parse"
                  /\ pc' = "threw"
                  /\ calls' = calls \o <<"parse", "throw">>
                  /\ UNCHANGED document
             ELSE /\ \E doc \in DecodedDocuments : document' = doc
                  /\ pc' = "schema"
                  /\ calls' = Append(calls, "parse")
                  /\ UNCHANGED <<fault, escaped>>
    /\ UNCHANGED <<criteria, totalScore, grade, feedback, prevScore, prevGrade,
                   argv, exitCode, source, content, result, pending>>

Step2SchemaAndTypes == Evaluate("schema", "descriptions", scoreSchemaAndTypes(document))

Step3Descriptions == Evaluate("descriptions", "paths", scoreDescriptions(document))

Step4PathsAndOperations == Evaluate("paths", "responses", scorePathsAndOperations(document))

Step5ResponseCodes == Evaluate("responses", "examples", scoreResponseCodes(document))

Step6Examples == Evaluate("examples", "security", scoreExamples(document))

Step7Security == Evaluate("security", "practices", scoreSecurity(document))

Step8BestPractices == Evaluate("practices", "aggregate", scoreBestPractices(document))

\* an aggregation that returns the results ranked by percentage
AggregateRanked ==
    /\ pc = "aggregate"
    /\ totalScore' = sumScores(criteria)
    /\ grade' = calculateGrade(sumScores(criteria))
    /\ feedback' = generateOverallFeedback(sumScores(criteria), criteria)
    /\ criteria' = sortByPercentage(criteria)
    /\ pc' = "done"
    /\ UNCHANGED <<document, prevScore, prevGrade, argv, exitCode, source, content, result, fault, pending,
                   escaped, calls>>

Aggregate ==
    /\ pc = "aggregate"
    /\ totalScore' = sumScores(criteria)
    /\ grade' = calculateGrade(sumScores(criteria))
    /\ feedback' = generateOverallFeedback(sumScores(criteria), criteria)
    /\ pc' = "done"
    /\ UNCHANGED <<document, criteria, prevScore, prevGrade, argv, exitCode, source, content, result, fault, pending,
                   escaped, calls>>

Next ==
    \/ Step1Parse
    \/ Step2SchemaAndTypes
    \/ Step3Descriptions
    \/ Step4PathsAndOperations
    \/ Step5ResponseCodes
    \/ Step6Examples
    \/ Step7Security
    \/ Step8BestPractices
    \/ Aggregate

Spec == Init /\ [][Next]_vars

(***************************************************************************)
(* calculateGrade on every total a scored document can have: the two most  *)
(* recent calls are kept.                                                  *)
(***************************************************************************)
MaxTotalScore == 100

InitGrade ==
    /\ pc = "grade:0"
    /\ document = NoDocument
    /\ criteria = <<>>
    /\ totalScore = 0
    /\ grade = ""
    /\ feedback = <<>>
    /\ calls = <<>>
    /\ IdleGrader
    /\ IdleValidator
    /\ NoCommand

CalculateGrade ==
    /\ pc \in {"grade:0", "grade:1", "grade:2"}
    /\ \E score \in 0..MaxTotalScore :
          /\ totalScore' = score
          /\ grade' = calculateGrade(score)
    /\ prevScore' = totalScore
    /\ prevGrade' = grade
    /\ pc' = IF pc = "grade:0" THEN "grade:1" ELSE "grade:2"
    /\ UNCHANGED <<document, criteria, feedback, argv, exitCode, source, content, result, fault, pending, escaped, calls>>

NextGrade == CalculateGrade

SpecGrade == InitGrade /\ [][NextGrade]_vars

(***************************************************************************)
(* generateOverallFeedback on its own: seven results with pooled           *)
(* percentages, each score the one its percentage stands for.              *)
(***************************************************************************)
CriteriaNames ==
    <<"Schema & Types", "Descriptions & Documentation", "Paths & Operations",
      "Response Codes", "Examples & Samples", "Security", "Best Practices">>

CriteriaMax == <<20, 20, 15, 15, 10, 10, 10>>

PercentagePool == {NaN, 10, 30, 49, 50}

InputCriteria ==
    {[i \in 1..7 |->
        [name |-> CriteriaNames[i],
         score |-> IF p[i] = NaN THEN NaN ELSE MathRound(Rat(p[i] * CriteriaMax[i], 100)),
         maxScore |-> CriteriaMax[i], percentage |-> p[i],
         feedback |-> <<>>, suggestions |-> <<>>]] :
     p \in [1..7 -> PercentagePool]}

InitFeedback ==
    /\ pc = "feedback:call"
    /\ document = NoDocument
    /\ criteria \in InputCriteria
    /\ totalScore = sumScores(criteria)
    /\ grade = calculateGrade(totalScore)
    /\ feedback = <<>>
    /\ calls = <<>>
    /\ IdleGrader
    /\ IdleValidator
    /\ NoCommand

GenerateOverallFeedback ==
    /\ pc = "feedback:call"
    /\ feedback' = generateOverallFeedback(totalScore, criteria)
    /\ pc' = "feedback:done"
    /\ UNCHANGED <<document, criteria, totalScore, grade, prevScore, prevGrade,
                   argv, exitCode, source, content, result, fault, pending, escaped, calls>>

NextFeedback == GenerateOverallFeedback

SpecFeedback == InitFeedback /\ [][NextFeedback]_vars

(***************************************************************************)
(* The aggregation of scoreSpec on its own: seven results whose scores are *)
(* nothing, one short of the maximum, or the maximum.                      *)
(***************************************************************************)
CollectedCriteria ==
    {[i \in 1..7 |->
        LET score == IF m[i] = 2 THEN 0 ELSE CriteriaMax[i] - m[i]
        IN [name |-> CriteriaNames[i],
            score |-> score,
            maxScore |-> CriteriaMax[i],
            percentage |-> MathRound(Rat(score * 100, CriteriaMax[i])),
            feedback |-> <<>>, suggestions |-> <<>>]] :
     m \in [1..7 -> 0..2]}

InitAggregate ==
    /\ pc = "aggregate"
    /\ document = NoDocument
    /\ criteria \in CollectedCriteria
    /\ totalScore = 0
    /\ grade = ""
    /\ feedback = <<>>
    /\ calls = <<>>
    /\ IdleGrader
    /\ IdleValidator
    /\ NoCommand

NextAggregate == Aggregate

SpecAggregate == InitAggregate /\ [][NextAggregate]_vars

(***************************************************************************)
(* scorePathsAndOperations on its own, over one or two path keys of a      *)
(* wider choice of templates.                                               *)
(***************************************************************************)
\* "/test", "/users/{id}", "/users/{userId}", "/User_Data", "/", "/files/{id}.json",
\* "/my-api2/v1", in key order
TemplatePool ==
    PathPool
    \o <<(<<"/">>),
         (<<"/", "f", "i", "l", "e", "s", "/", "{", "i", "d", "}", ".", "j", "s", "o", "n">>),
         (<<"/", "m", "y", "-", "a", "p", "i", "2", "/", "v", "1">>)>>

\* path items with get; get and post; head only; no method at all
TemplateItems ==
    {Item(0, <<Op("get", opMinimal)>>),
     Item(0, <<Op("get", opMinimal), Op("post", opMinimal)>>),
     Item(0, <<Op("head", opMinimal)>>),
     Item(3, <<>>)}

TemplateDocuments ==
    {Doc(MinimalTop, [present |-> TRUE, entries |-> <<Entry(TemplatePool[i], item)>>]) :
        i \in DOMAIN TemplatePool, item \in TemplateItems}
    \cup {Doc(MinimalTop,
              [present |-> TRUE,
               entries |-> <<Entry(TemplatePool[ij[1]], item), Entry(TemplatePool[ij[2]], other)>>]) :
             ij \in {p \in (DOMAIN TemplatePool) \X (DOMAIN TemplatePool) : p[1] < p[2]},
             item \in TemplateItems, other \in TemplateItems}

InitPaths ==
    /\ pc = "paths"
    /\ document \in TemplateDocuments
    /\ criteria = <<>>
    /\ totalScore = 0
    /\ grade = ""
    /\ feedback = <<>>
    /\ calls = <<>>
    /\ IdleGrader
    /\ IdleValidator
    /\ NoCommand

NextPaths == Step4PathsAndOperations

SpecPaths == InitPaths /\ [][NextPaths]_vars

(***************************************************************************)
(* scoreSecurity on its own: zero to three schemes, the three forms of the *)
(* global security list, and paths whose operations carry security on      *)
(* all, some or none of them.                                              *)
(***************************************************************************)
\* every operation with a security entry; five operations of which one has an
\* empty security list
SecuredPaths ==
    {[present |-> TRUE,
      entries |-> <<Entry(PathPool[1], Item(0, <<Op("get", opDocumented), Op("post", opPartial)>>))>>],
     [present |-> TRUE,
      entries |-> <<Entry(PathPool[1], Item(0, <<Op("get", opMinimal), Op("post", opMinimal),
                                                 Op("put", opMinimal)>>)),
                    Entry(PathPool[2], Item(0, <<Op("get", opMinimal), Op("patch", opPartial),
                                                 Op("head", opDocumented)>>))>>]}

SecurityDocuments ==
    {Doc(Top(V303, 0, "1.0.0", 0, security, FALSE, Components(<<>>, schemes, 0, 0)), paths) :
        security \in {"absent", "empty", "set"}, schemes \in 0..3,
        paths \in CorePaths \cup SecuredPaths}

InitSecurity ==
    /\ pc = "security"
    /\ document \in SecurityDocuments
    /\ criteria = <<>>
    /\ totalScore = 0
    /\ grade = ""
    /\ feedback = <<>>
    /\ calls = <<>>
    /\ IdleGrader
    /\ IdleValidator
    /\ NoCommand

NextSecurity == Step7Security

SpecSecurity == InitSecurity /\ [][NextSecurity]_vars

(***************************************************************************)
(* validateSpec (lib/validator).                                           *)
(***************************************************************************)
\* the media types without example and examples, over every response with a
\* content key of every operation
missingExamples(doc) ==
    IF ~doc.paths.present THEN 0
    ELSE LET keys == OpKeys(doc, Methods8)
         IN SumOver(keys,
                    [k \in keys |->
                        LET operation == OpAt(doc, k)
                        IN SumOver(ContentResponses(operation),
                                   [j \in ContentResponses(operation) |->
                                       Count(operation.responses[j].content,
                                             LAMBDA mediaType : ~HasExample(mediaType))])])

\* document.openapi.startsWith('3.0') raises a TypeError when the field is missing
performAdditionalValidation(doc) ==
    IF doc.openapi = NoOpenapi
    THEN [threw |-> TRUE,
          error |-> Thrown(TRUE, "TypeError",
                           Line("Cannot read properties of undefined (reading 'startsWith')")),
          warnings |-> <<>>]
    ELSE [threw |-> FALSE,
          error |-> NoError,
          warnings |->
              When(~doc.paths.present \/ Len(doc.paths.entries) = 0,
                   <<Line("No paths defined in the specification")>>)
              \o When(doc.info.description = 0,
                      <<Line("API description is missing from info object")>>)
              \o When(missingExamples(doc) > 0,
                      <<Msg("{missingExamples} response(s) missing examples",
                            <<missingExamples(doc)>>)>>)
              \o When(doc.components.securitySchemes = 0 /\ doc.security = "absent",
                      <<Line("No security schemes defined")>>)
              \o When(HasPrefix(doc.openapi, <<"3", ".", "0">>),
                      <<Line("Consider upgrading to OpenAPI 3.1.0 for improved JSON Schema support")>>)]

calculateStats(doc) ==
    [paths |-> IF doc.paths.present THEN Len(doc.paths.entries) ELSE 0,
     operations |-> IF doc.paths.present THEN Cardinality(OpKeys(doc, Methods8)) ELSE 0,
     schemas |-> Len(doc.components.schemas),
     parameters |-> doc.components.parameters]

\* the line the catch block pushes for the error it caught
errorLine(error) ==
    IF error.isError
    THEN IF error.name = "ParserError"
         THEN Msg("Parser Error: {message}", <<error.message>>)
         ELSE IF error.name = "ResolverError"
         THEN Msg("Reference Resolution Error: {message}", <<error.message>>)
         ELSE IF error.name = "ValidatorError"
         THEN Msg("Schema Validation Error: {message}", <<error.message>>)
         ELSE IF error.name = "SyntaxError"
         THEN Msg("Syntax Error: {message}", <<error.message>>)
         ELSE Msg("Validation Error: {message}", <<error.message>>)
    ELSE Msg("Unknown validation error: {error}", <<error.message>>)

\* a catch block that hands on what is not an Error
catchBlockRethrowing(res, error) ==
    IF error.isError
    THEN [result |-> [res EXCEPT !.isValid = FALSE,
                                 !.errors = Append(@, errorLine(error))],
          rethrown |-> NoError]
    ELSE [result |-> [res EXCEPT !.isValid = FALSE], rethrown |-> error]

\* a catch block that pushes the error under two headings
catchBlockPushingTwice(res, error) ==
    [result |-> [res EXCEPT !.isValid = FALSE,
                            !.errors = @ \o <<errorLine(error),
                                              Msg("Validation Error: {message}",
                                                  <<error.message>>)>>],
     rethrown |-> NoError]

\* catch (error) { result.isValid = false; result.errors.push(...) }: nothing is thrown on
catchBlock(res, error) ==
    [result |-> [res EXCEPT !.isValid = FALSE,
                            !.errors = Append(@, errorLine(error))],
     rethrown |-> NoError]

InitValidate ==
    /\ pc = "validate:parse"
    /\ source \in Sources
    /\ content = NoContent
    /\ document = NoDocument
    /\ result = NoResult
    /\ fault = ""
    /\ pending = NoError
    /\ escaped = NoError
    /\ criteria = <<>>
    /\ totalScore = 0
    /\ grade = ""
    /\ feedback = <<>>
    /\ calls = <<>>
    /\ IdleGrader
    /\ NoCommand

\* an exception raised inside the try block goes to the catch block
Throw(call, kind, error) ==
    /\ fault' = kind
    /\ pending' = error
    /\ pc' = "validate:catch"
    /\ calls' = calls \o <<call, "throw">>

ParseUrl ==
    /\ pc = "validate:parse"
    /\ isUrl(source)
    /\ \E outcome \in FetchOutcomes :
          LET r == parseUrl(source, outcome)
          IN IF r.threw
             THEN /\ Throw("fetch", fetchFault(outcome), r.error)
                  /\ UNCHANGED content
             ELSE /\ content' = r.value
                  /\ pc' = "validate:decode"
                  /\ calls' = Append(calls, "fetch")
                  /\ fault' = fetchFault(outcome)
                  /\ UNCHANGED pending
    /\ UNCHANGED <<document, criteria, totalScore, grade, feedback, prevScore,
                   prevGrade, argv, exitCode, source, result, escaped>>

ParseFile ==
    /\ pc = "validate:parse"
    /\ ~isUrl(source)
    /\ \E outcome \in ReadOutcomes :
          LET r == parseFile(source, outcome)
          IN IF r.threw
             THEN /\ Throw("readFile", outcome.code, r.error)
                  /\ UNCHANGED content
             ELSE /\ content' = r.value
                  /\ pc' = "validate:decode"
                  /\ calls' = Append(calls, "readFile")
                  /\ fault' = outcome.code
                  /\ UNCHANGED pending
    /\ UNCHANGED <<document, criteria, totalScore, grade, feedback, prevScore,
                   prevGrade, argv, exitCode, source, result, escaped>>

ParseContent ==
    /\ pc = "validate:decode"
    /\ LET r == parseContent(content, source)
       IN IF r.threw
          THEN /\ Throw("parseContent", "decode", r.error)
               /\ UNCHANGED document
          ELSE /\ \E doc \in ValidatorDocuments : document' = doc
               /\ pc' = "validate:validate"
               /\ calls' = Append(calls, "parseContent")
               /\ UNCHANGED <<fault, pending>>
    /\ UNCHANGED <<criteria, totalScore, grade, feedback, prevScore, prevGrade,
                   argv, exitCode, source, content, result, escaped>>

SwaggerValidate ==
    /\ pc = "validate:validate"
    /\ \E outcome \in ValidateOutcomes :
          IF outcome.thrown
          THEN Throw("SwaggerParser.validate", "validate", outcome)
          ELSE /\ pc' = "validate:additional"
               /\ calls' = Append(calls, "SwaggerParser.validate")
               /\ UNCHANGED <<fault, pending>>
    /\ UNCHANGED <<document, criteria, totalScore, grade, feedback, prevScore,
                   prevGrade, argv, exitCode, source, content, result, escaped>>

\* the additional checks, then the four assignments that end the try block
AdditionalValidation ==
    /\ pc = "validate:additional"
    /\ LET r == performAdditionalValidation(document)
       IN IF r.threw
          THEN /\ Throw("performAdditionalValidation", "additional", r.error)
               /\ UNCHANGED result
          ELSE /\ result' = [result EXCEPT !.isValid = TRUE,
                                           !.hasDocument = TRUE,
                                           !.warnings = r.warnings,
                                           !.hasStats = TRUE,
                                           !.stats = calculateStats(document)]
               /\ pc' = "validate:returned"
               /\ calls' = calls \o <<"performAdditionalValidation", "calculateStats">>
               /\ UNCHANGED <<fault, pending>>
    /\ UNCHANGED <<document, criteria, totalScore, grade, feedback, prevScore,
                   prevGrade, argv, exitCode, source, content, escaped>>

\* a catch block that starts the pipeline again
CatchErrorRetrying ==
    /\ pc = "validate:catch"
    /\ result' = catchBlock(result, pending).result
    /\ pending' = NoError
    /\ pc' = "validate:parse"
    /\ UNCHANGED <<document, criteria, totalScore, grade, feedback, prevScore,
                   prevGrade, argv, exitCode, source, content, fault, escaped, calls>>

CatchError ==
    /\ pc = "validate:catch"
    /\ LET c == catchBlock(result, pending)
       IN /\ result' = c.result
          /\ escaped' = c.rethrown
          /\ pc' = IF c.rethrown.thrown THEN "validate:threw" ELSE "validate:returned"
    /\ pending' = NoError
    /\ UNCHANGED <<document, criteria, totalScore, grade, feedback, prevScore,
                   prevGrade, argv, exitCode, source, content, fault, calls>>

NextValidate ==
    \/ ParseUrl
    \/ ParseFile
    \/ ParseContent
    \/ SwaggerValidate
    \/ AdditionalValidation
    \/ CatchError

SpecValidate == InitValidate /\ [][NextValidate]_vars

\* one call of either entry point, validateSpec or scoreSpec
InitEitherCall == Init \/ InitValidate

NextEitherCall == Next \/ NextValidate

SpecEitherCall == InitEitherCall /\ [][NextEitherCall]_vars

(***************************************************************************)
(* The commands as the command line invokes them (index.ts:                *)
(* program.command(...).action(...); commands/validate, commands/report).  *)
(***************************************************************************)
\* commander's options object for the report command: the defaults of
\* .option('-f, --format <format>', ..., 'console') and
\* .option('-o, --output <file>', ..., 'report.md') stand in for what was not given
commander(args) ==
    [format |-> IF args.hasFormat THEN args.format ELSE "console",
     output |-> IF args.hasOutput THEN args.output ELSE "report.md"]

\* const format = options.format || 'console'
formatOf(options) == IF options.format = "" THEN "console" ELSE options.format

\* (format === 'markdown' || format === 'html') && !options.output
outputMissing(options) ==
    /\ formatOf(options) \in {"markdown", "html"}
    /\ options.output = ""

\* the validate command without its process.exit(1)
validateOutcomeAlwaysZero(res) ==
    IF res.isValid
    THEN [print |-> "printSuccessResult", code |-> 0]
    ELSE [print |-> "printErrorResult", code |-> 0]

\* if (result.isValid) printSuccessResult(...) else { printErrorResult(...); process.exit(1) }
validateOutcome(res) ==
    IF res.isValid
    THEN [print |-> "printSuccessResult", code |-> 0]
    ELSE [print |-> "printErrorResult", code |-> 1]

\* report <file> with -f absent, console, markdown, html or a format the
\* command does not know, and -o absent, a path, or an empty string
ReportArgvs ==
    {[command |-> "report", hasFormat |-> hf, format |-> f,
      hasOutput |-> ho, output |-> o] :
        hf \in BOOLEAN, f \in {"", "console", "markdown", "html", "pdf"},
        ho \in BOOLEAN, o \in {"", "out.md"}}
    \ {a \in [command : {"report"}, hasFormat : BOOLEAN,
              format : {"", "console", "markdown", "html", "pdf"},
              hasOutput : BOOLEAN, output : {"", "out.md"}] :
          \/ (a.hasFormat <=> a.format = "")
          \/ (~a.hasOutput /\ a.output # "")}

\* what writeFile settles with
WriteOutcomes == {"", "EACCES"}

InitReport ==
    /\ pc = "report:start"
    /\ argv \in ReportArgvs
    /\ exitCode = Running
    /\ source \in Sources
    /\ content = NoContent
    /\ document = NoDocument
    /\ criteria = <<>>
    /\ totalScore = 0
    /\ grade = ""
    /\ feedback = <<>>
    /\ result = NoResult
    /\ fault = ""
    /\ pending = NoError
    /\ escaped = NoError
    /\ calls = <<>>
    /\ IdleGrader

\* the guard of report: exit 1 when a file format has no output path,
\* otherwise on to scoreSpec
ReportStart ==
    /\ pc = "report:start"
    /\ IF outputMissing(commander(argv))
       THEN /\ exitCode' = 1
            /\ pc' = "exited"
            /\ calls' = Append(calls, "consola.error")
       ELSE /\ pc' = "parse"
            /\ UNCHANGED <<exitCode, calls>>
    /\ UNCHANGED <<document, criteria, totalScore, grade, feedback, prevScore,
                   prevGrade, argv, source, content, result, fault, pending, escaped>>

\* the switch on the format after scoreSpec returned: the report is written
\* or printed and the command returns, or the write fails and the catch exits 1
ReportRender ==
    /\ pc = "done"
    /\ argv.command = "report"
    /\ IF formatOf(commander(argv)) \in {"markdown", "html"}
       THEN \E outcome \in WriteOutcomes :
               IF outcome = ""
               THEN /\ calls' = Append(calls, "writeFile")
                    /\ exitCode' = 0
                    /\ UNCHANGED fault
               ELSE /\ calls' = calls \o <<"writeFile", "throw", "consola.error">>
                    /\ exitCode' = 1
                    /\ fault' = outcome
       ELSE /\ calls' = Append(calls, "printScoringResult")
            /\ exitCode' = 0
            /\ UNCHANGED fault
    /\ pc' = "exited"
    /\ UNCHANGED <<document, criteria, totalScore, grade, feedback, prevScore,
                   prevGrade, argv, source, content, result, pending, escaped>>

\* catch (error) of report, for an error that left scoreSpec
ReportCatch ==
    /\ pc = "threw"
    /\ argv.command = "report"
    /\ exitCode' = 1
    /\ pc' = "exited"
    /\ calls' = Append(calls, "consola.error")
    /\ UNCHANGED <<document, criteria, totalScore, grade, feedback, prevScore,
                   prevGrade, argv, source, content, result, fault, pending, escaped>>

NextReport ==
    \/ ReportStart
    \/ Step1Parse
    \/ Step2SchemaAndTypes
    \/ Step3Descriptions
    \/ Step4PathsAndOperations
    \/ Step5ResponseCodes
    \/ Step6Examples
    \/ Step7Security
    \/ Step8BestPractices
    \/ Aggregate
    \/ ReportRender
    \/ ReportCatch

SpecReport == InitReport /\ [][NextReport]_vars

InitValidateCommand ==
    /\ pc = "validate:parse"
    /\ argv = [NoArgv EXCEPT !.command = "validate"]
    /\ exitCode = Running
    /\ source \in Sources
    /\ content = NoContent
    /\ document = NoDocument
    /\ result = NoResult
    /\ fault = ""
    /\ pending = NoError
    /\ escaped = NoError
    /\ criteria = <<>>
    /\ totalScore = 0
    /\ grade = ""
    /\ feedback = <<>>
    /\ calls = <<>>
    /\ IdleGrader

\* validate after validateSpec settled: the result is printed and the process
\* ends, with 1 for a failed result and for an error that left validateSpec
ValidateEnd ==
    /\ pc \in {"validate:returned", "validate:threw"}
    /\ argv.command = "validate"
    /\ IF pc = "validate:threw"
       THEN /\ calls' = Append(calls, "consola.error")
            /\ exitCode' = 1
       ELSE /\ calls' = Append(calls, validateOutcome(result).print)
            /\ exitCode' = validateOutcome(result).code
    /\ pc' = "exited"
    /\ UNCHANGED <<document, criteria, totalScore, grade, feedback, prevScore,
                   prevGrade, argv, source, content, result, fault, pending, escaped>>

NextValidateCommand ==
    \/ ParseUrl
    \/ ParseFile
    \/ ParseContent
    \/ SwaggerValidate
    \/ AdditionalValidation
    \/ CatchError
    \/ ValidateEnd

SpecValidateCommand == InitValidateCommand /\ [][NextValidateCommand]_vars

(***************************************************************************)
(* Properties of the evaluators and the scorer.                            *)
(***************************************************************************)
IsNumber(x) == x # NaN

Scored(name) == \E i \in DOMAIN criteria : criteria[i].name = name

ResultOf(name) == criteria[CHOOSE i \in DOMAIN criteria : criteria[i].name = name]

ZeroPaths(doc) == Len(doc.paths.entries) = 0

PathCriteria == {"Paths & Operations", "Response Codes", "Examples & Samples"}

\* C1: for a document with zero paths (no paths mapping, or an empty one) the
\* Paths & Operations, Response Codes and Examples & Samples results have score 0
\* and the finding 'No paths defined'.
C1_ZeroPathsScoreZero ==
    \A i \in DOMAIN criteria :
        (ZeroPaths(document) /\ criteria[i].name \in PathCriteria)
        => /\ criteria[i].score = 0
           /\ "No paths defined" \in Texts(criteria[i].feedback)

\* the plain sum of the score fields
PlainSum(cs) == SumOver(DOMAIN cs, [i \in DOMAIN cs |-> cs[i].score])

\* C2: the total of a scored document is the sum of the seven rounded scores and
\* lies in 0..100.
C2_TotalIsSumInRange ==
    pc = "done"
    => /\ Len(criteria) = 7
       /\ IsNumber(totalScore)
       /\ totalScore = PlainSum(criteria)
       /\ totalScore \in 0..100

\* the grade table of the README
GradeTable(score) ==
    CASE score \in 80..100 -> "A"
      [] score \in 70..79 -> "B"
      [] score \in 60..69 -> "C"
      [] score \in 50..59 -> "D"
      [] score \in 0..49 -> "F"

GradeRank(g) ==
    CASE g = "A" -> 4 [] g = "B" -> 3 [] g = "C" -> 2 [] g = "D" -> 1 [] g = "F" -> 0

\* C3: calculateGrade gives every total in 0..100 the grade of its band (A 80..100,
\* B 70..79, C 60..69, D 50..59, F 0..49), and a higher total never gets a worse grade.
C3_GradeBands ==
    /\ (pc \in {"grade:1", "grade:2"} /\ totalScore \in 0..100)
       => grade = GradeTable(totalScore)
    /\ (pc = "grade:2" /\ prevScore <= totalScore /\ totalScore \in 0..100)
       => GradeRank(prevGrade) <= GradeRank(grade)

\* 79 then 80 were graded: B then A
C3_Witness ==
    /\ pc = "grade:2"
    /\ prevScore = 79 /\ prevGrade = "B"
    /\ totalScore = 80 /\ grade = "A"

MaxScoreOf(name) ==
    CASE name = "Schema & Types" -> 20
      [] name = "Descriptions & Documentation" -> 20
      [] name = "Paths & Operations" -> 15
      [] name = "Response Codes" -> 15
      [] name = "Examples & Samples" -> 10
      [] name = "Security" -> 10
      [] name = "Best Practices" -> 10

\* C5: every result's score is an integer in 0..maxScore, maxScore being 20, 20, 15,
\* 15, 10, 10, 10 for the seven criteria.
C5_ScoreWithinMax ==
    \A i \in DOMAIN criteria :
        /\ criteria[i].maxScore = MaxScoreOf(criteria[i].name)
        /\ IsNumber(criteria[i].score)
        /\ criteria[i].score \in 0..criteria[i].maxScore

\* C6: every result's percentage is round(score / maxScore * 100) of its own score
\* and maxScore fields, and lies in 0..100.
C6_PercentageFromScore ==
    \A i \in DOMAIN criteria :
        /\ IsNumber(criteria[i].percentage)
        /\ IsNumber(criteria[i].score)
        /\ criteria[i].percentage
              = MathRound(Rat(criteria[i].score * 100, criteria[i].maxScore))
        /\ criteria[i].percentage \in 0..100

AllProperlyTyped(doc) ==
    /\ Len(doc.components.schemas) >= 1
    /\ \A i \in DOMAIN doc.components.schemas :
          /\ doc.components.schemas[i].type = "object"
          /\ doc.components.schemas[i].properties = "nonempty"

\* C7: when components.schemas holds N >= 1 schemas, all objects with a non-empty
\* properties map, the 'properly typed' term is 10 and the Schema & Types score is
\* at least 15.
C7_ProperlyTypedMaximum ==
    (Scored("Schema & Types") /\ AllProperlyTyped(document))
    => LET n == Len(document.components.schemas)
           term == properlyTypedTerm(n, n)
       IN /\ term.d # 0
          /\ term.n = 10 * term.d
          /\ ResultOf("Schema & Types").score >= 15
          /\ Msg("{0} schemas have proper type definitions", <<n>>)
                \in Range(ResultOf("Schema & Types").feedback)

\* two typed objects were scored
C7_Witness ==
    /\ Scored("Schema & Types")
    /\ AllProperlyTyped(document)
    /\ Len(document.components.schemas) = 2
    /\ ResultOf("Schema & Types").score >= 15

\* the minimal fixture: one path /test whose only operation is a get with a sole
\* described 200 response without content; version 1.0.0; nothing else declared
IsMinimal(doc) ==
    /\ doc.paths = [present |-> TRUE,
                    entries |-> <<Entry(PathPool[1], Item(0, <<Op("get", opMinimal)>>))>>]
    /\ doc.info.version = "1.0.0"
    /\ doc.servers = 0
    /\ doc.security = "absent"
    /\ ~doc.externalDocs
    /\ doc.components = NoComponents

\* C9: the minimal document scores Security 0, Examples & Samples 0, Best Practices
\* at most 2, a total below 50, grade D or F, and some criterion has a suggestion.
C9_MinimalDocument ==
    (pc = "done" /\ IsMinimal(document))
    => /\ ResultOf("Security").score = 0
       /\ ResultOf("Examples & Samples").score = 0
       /\ ResultOf("Best Practices").score \in 0..2
       /\ totalScore \in 0..49
       /\ grade \in {"D", "F"}
       /\ \E i \in DOMAIN criteria : Len(criteria[i].suggestions) > 0

\* the minimal document was scored: 19 points, grade F
C9_Witness ==
    /\ pc = "done"
    /\ IsMinimal(document)
    /\ document.info.description = 0
    /\ totalScore = 19
    /\ grade = "F"


\* the positions of the results whose percentage is below t
WeakBelow(t) == {i \in 1..Len(criteria) : NumLt(criteria[i].percentage, t)}

PositionOf(name) == CHOOSE i \in 1..Len(criteria) : criteria[i].name = name

\* the overall feedback carries a weak-areas line exactly when some percentage
\* is below t; the line names min(3, k) of the k such results, lowest
\* percentages first; without one the narrative line stands alone
WeakLineFor(t) ==
    LET weak == WeakBelow(t)
        k == Cardinality(weak)
    IN  /\ Len(feedback) >= 1
        /\ feedback[1].args = <<>>
        /\ IF k = 0
           THEN Len(feedback) = 1
           ELSE /\ Len(feedback) = 2
                /\ feedback[2].text = "Focus on improving: {names}"
                /\ LET names == feedback[2].args
                       at == [j \in 1..Len(names) |-> PositionOf(names[j])]
                   IN  /\ Len(names) = IF k < 3 THEN k ELSE 3
                       /\ \A j \in 1..Len(names) :
                            /\ names[j] \in {criteria[i].name : i \in weak}
                            /\ at[j] \in weak
                       /\ \A j, l \in 1..Len(names) : j # l => at[j] # at[l]
                       /\ \A j, l \in 1..Len(names) :
                            j < l => criteria[at[j]].percentage <= criteria[at[l]].percentage
                       /\ \A i \in weak \ Range(at), j \in 1..Len(names) :
                            criteria[at[j]].percentage <= criteria[i].percentage

Failed == \E i \in DOMAIN calls : calls[i] = "throw"

CompletedPipeline(retrieval) ==
    calls = <<retrieval, "parseContent", "SwaggerParser.validate",
              "performAdditionalValidation", "calculateStats">>

\* C10: validateSpec never throws: no exception leaves it, a call in which a
\* step failed returns isValid = false with a non-empty errors list, and
\* isValid = true is returned only after retrieval, decoding,
\* SwaggerParser.validate, the additional checks and calculateStats have all
\* completed, with errors empty and document and stats set
C10_ValidateSpecNeverThrows ==
    /\ ~escaped.thrown
    /\ pc # "validate:threw"
    /\ (pc = "validate:returned" /\ Failed) =>
          /\ ~result.isValid
          /\ Len(result.errors) >= 1
    /\ (pc = "validate:returned" /\ result.isValid) =>
          /\ CompletedPipeline("fetch") \/ CompletedPipeline("readFile")
          /\ result.errors = <<>>
          /\ result.hasDocument
          /\ result.hasStats

\* a Swagger 2.0 document passes SwaggerParser.validate, the additional checks
\* raise a TypeError, and the call still returns a failed result
C10_Witness ==
    /\ pc = "validate:returned"
    /\ document.openapi = NoOpenapi
    /\ calls[Len(calls)] = "throw"
    /\ calls[Len(calls) - 1] = "performAdditionalValidation"
    /\ ~result.isValid
    /\ Len(result.errors) = 1
    /\ ~escaped.thrown

\* the failures of retrieval and decoding, and the kind each belongs to
RetrievalFaults == {"ENOENT", "EACCES", "rejected", "status", "timeout", "decode"}

KindOf(f) ==
    CASE f = "ENOENT" -> "file not found"
      [] f = "EACCES" -> "permission denied"
      [] f \in {"rejected", "status", "timeout"} -> "network error"
      [] f = "decode" -> "parse failure"

\* the errors-list line every retrieval or decoding failure of every source ends in
FailureLines ==
    {[fault |-> o.code, line |-> errorLine(parseFile(src, o).error)] :
        src \in Sources, o \in {x \in ReadOutcomes : x.code \in RetrievalFaults}}
    \cup {[fault |-> fetchFault(o), line |-> errorLine(parseUrl(src, o).error)] :
             src \in Sources, o \in {x \in FetchOutcomes : fetchFault(x) # ""}}
    \cup {[fault |-> "decode", line |-> errorLine(parseContent(c, src).error)] :
             src \in Sources, c \in {x \in Contents : ~decodes(x)}}

\* the message of an errors-list line has the source among the values put in it
Mentions(line, src) == src \in Range(line.args[1].args)

\* C11: when retrieval or decoding fails (file not found, permission denied,
\* a rejected, timed-out or non-2xx fetch, a JSON/YAML parse failure) the line
\* in the errors list differs from every line a failure of another kind gives
\* and contains the source that was given
C11_FailureKindAndSource ==
    (pc = "validate:returned" /\ fault \in RetrievalFaults)
    => /\ Len(result.errors) = 1
       /\ \A x \in FailureLines :
             KindOf(x.fault) # KindOf(fault) => x.line # result.errors[1]
       /\ Mentions(result.errors[1], source)

\* the user gave an output path
OutputSupplied == argv.hasOutput /\ argv.output # ""

\* a file format was asked for and no output path was given
FileFormatWithoutOutput ==
    /\ formatOf(commander(argv)) \in {"markdown", "html"}
    /\ ~OutputSupplied

\* C12: the report command ends with exit code 1 if the format is markdown or
\* html and no output path was given, or if parsing, scoring or writing the
\* report raised an error, and with exit code 0 in every other case; a
\* markdown or html run without an output path writes no file
C12_ReportExitCode ==
    (pc = "exited" /\ argv.command = "report")
    => /\ exitCode = IF FileFormatWithoutOutput \/ Failed THEN 1 ELSE 0
       /\ FileFormatWithoutOutput => ~("writeFile" \in Range(calls))

\* C13: the validate command prints the error result and exits with code 1
\* whenever validateSpec returned isValid = false; it prints the success
\* result and ends without process.exit(1) exactly when validateSpec returned
\* isValid = true
C13_ValidateExitCode ==
    (pc = "exited" /\ argv.command = "validate")
    => /\ ~escaped.thrown
       /\ calls[Len(calls)] \in {"printSuccessResult", "printErrorResult"}
       /\ (calls[Len(calls)] = "printSuccessResult") <=> result.isValid
       /\ (exitCode = 0) <=> result.isValid
       /\ (exitCode = 1) <=> ~result.isValid
       /\ ~result.isValid => Failed

\* a missing file: the error result was printed and the process exited with 1
C13_Witness ==
    /\ pc = "exited"
    /\ argv.command = "validate"
    /\ fault = "ENOENT"
    /\ ~result.isValid
    /\ calls[Len(calls)] = "printErrorResult"
    /\ exitCode = 1

\* C14: when the source is a URL and the fetch timed out or was answered with
\* a status outside 200..299, nothing is decoded: there is no text and no
\* document, neither parseContent nor SwaggerParser.validate nor an evaluator
\* runs, and validateSpec returns isValid = false with that failure as its
\* one error
C14_FetchFailureStopsParse ==
    fault \in {"timeout", "status"}
    => /\ isUrl(source)
       /\ content = NoContent
       /\ document = NoDocument
       /\ Range(calls) \subseteq {"fetch", "throw"}
       /\ criteria = <<>>
       /\ pc \in {"validate:catch", "validate:returned"}
       /\ pc = "validate:returned"
             => /\ ~result.isValid
                /\ ~result.hasDocument
                /\ Len(result.errors) = 1
                /\ result.errors[1].args[1].text
                      \in {"HTTP {status}: {statusText}",
                           "The operation was aborted due to timeout"}

\* a URL answered 404 or 500: the call returned a failed result
C14_Witness ==
    /\ pc = "validate:returned"
    /\ fault = "status"
    /\ isUrl(source)
    /\ calls = <<"fetch", "throw">>
    /\ ~result.isValid
    /\ result.errors[1].args[1].text = "HTTP {status}: {statusText}"

TimesCalled(name) == Cardinality({i \in DOMAIN calls : calls[i] = name})

\* C15: in one validateSpec or scoreSpec call the source is read or fetched at
\* most once and SwaggerParser.validate is called at most once; once a step
\* has failed nothing is called again: the failure is the last entry of the
\* call's record
C15_NoRetry ==
    /\ TimesCalled("fetch") + TimesCalled("readFile") + TimesCalled("parse") <= 1
    /\ TimesCalled("parseContent") <= 1
    /\ TimesCalled("SwaggerParser.validate") <= 1
    /\ TimesCalled("throw") <= 1
    /\ \A i \in DOMAIN calls : calls[i] = "throw" => i = Len(calls)

\* the source was read and decoded, SwaggerParser.validate failed, and the
\* call returned without another step
C15_Witness ==
    /\ pc = "validate:returned"
    /\ calls = <<"readFile", "parseContent", "SwaggerParser.validate", "throw">>
    /\ ~result.isValid

\* C16: once the parser has returned the document, no evaluator and no
\* aggregation step of scoreSpec changes it: every evaluator is given the
\* document the first one was given, and the result carries that document
C16_DocumentUnchanged == [][pc # "parse" => document' = document]_vars

\* scoreSpec returned for a document with paths and schemas, all seven
\* evaluators having walked it
C16_Witness ==
    /\ pc = "done"
    /\ Len(criteria) = 7
    /\ document.paths # NoPaths
    /\ Len(document.components.schemas) > 0
    /\ totalScore # NaN

\* what each of the seven evaluators returns for doc when called on its own
Alone(doc) ==
    <<scoreSchemaAndTypes(doc), scoreDescriptions(doc), scorePathsAndOperations(doc),
      scoreResponseCodes(doc), scoreExamples(doc), scoreSecurity(doc),
      scoreBestPractices(doc)>>

C18_SevenResultsInOrder ==
    pc = "done"
    => /\ Len(criteria) = 7
       /\ [i \in 1..7 |-> criteria[i].name]
             = <<"Schema & Types", "Descriptions & Documentation", "Paths & Operations",
                 "Response Codes", "Examples & Samples", "Security", "Best Practices">>
       /\ [i \in 1..7 |-> criteria[i].maxScore] = <<20, 20, 15, 15, 10, 10, 10>>
       /\ SumOver(1..7, [i \in 1..7 |-> criteria[i].maxScore]) = 100
       /\ Len(feedback) >= 1
       /\ feedback[1].text # ""

\* scoreSpec returned with the second result ranked below the sixth by
\* percentage, the order of the evaluators kept all the same
C18_Witness ==
    /\ pc = "done"
    /\ Len(criteria) = 7
    /\ criteria[2].percentage # NaN
    /\ criteria[6].percentage # NaN
    /\ criteria[2].percentage < criteria[6].percentage
    /\ criteria[6].name = "Security"
    /\ Len(feedback) = 2

\* SwaggerParser.validate returned without raising
Accepted ==
    \E i \in DOMAIN calls :
        /\ calls[i] = "SwaggerParser.validate"
        /\ (i = Len(calls) \/ calls[i + 1] # "throw")

\* C19: the additional checks only add warnings: for every document that
\* SwaggerParser.validate accepts, validateSpec returns isValid = true with no
\* errors, however many of the five checks fire, and a document without
\* info.description gets a warning that mentions 'description'
C19_AdditionalChecksOnlyWarn ==
    (pc = "validate:returned" /\ Accepted)
    => /\ result.isValid
       /\ result.errors = <<>>
       /\ document.info.description = 0
             => "API description is missing from info object" \in Texts(result.warnings)

\* the narrative line that goes with each grade; the README describes the
\* grades as A: Excellent - Follows industry best practices, B: Good -
\* Well-structured with minor improvements needed, C: Decent - Several areas
\* for improvement, D: Needs work - Significant improvements required,
\* F: Poor - Major improvements needed across multiple areas
LineOfGrade(g) ==
    CASE g = "A" -> "Excellent! Your OpenAPI specification follows industry best practices."
      [] g = "B" -> "Good job! Your API specification is well-structured with minor areas for improvement."
      [] g = "C" -> "Your API specification is decent but has several areas that could be improved."
      [] g = "D" -> "Your API specification needs significant improvements to meet best practices."
      [] g = "F" -> "Your API specification requires major improvements across multiple areas."

HasProperties(schema) == schema.type = "object" /\ schema.properties = "nonempty"

\* 5 for a named schema, min(10, typed / count * 10), min(5, usages / (2 * operations) * 5),
\* typed being the schemas that are objects with a non-empty properties map
SchemaScoreByNonEmptyProperties(doc) ==
    LET schemas == doc.components.schemas
        typed == Count(schemas, HasProperties)
        keys == OpKeys(doc, Methods5)
        usages == SumOver(keys, [k \in keys |-> SchemaUsages(OpAt(doc, k))])
        base == IF Len(schemas) > 0 THEN Num(5) ELSE Num(0)
        typedTerm == IF typed > 0
                     THEN MathMin(10, Times(Div(typed, Len(schemas)), 10))
                     ELSE Num(0)
        usageTerm == IF Cardinality(keys) > 0
                     THEN MathMin(5, Times(Div(usages, Cardinality(keys) * 2), 5))
                     ELSE Num(0)
    IN Plus(Plus(base, typedTerm), usageTerm)

\* C21: a named schema is properly typed iff it is an object with a non-empty
\* properties map, and the Schema & Types score is the rounding of 5 (for one
\* named schema or more) + min(10, properlyTyped / count * 10)
\* + min(5, usages / (totalOperations * 2) * 5), over get/post/put/patch/delete,
\* free-form objects not counting
C21_SchemaScoreFormula ==
    Scored("Schema & Types")
    => /\ ResultOf("Schema & Types").score
             = MathRound(SchemaScoreByNonEmptyProperties(document))
       /\ ResultOf("Schema & Types").percentage
             = Percentage(SchemaScoreByNonEmptyProperties(document), 20)
       /\ \A i \in DOMAIN document.components.schemas :
             IsProperlyTyped(document.components.schemas[i])
                <=> HasProperties(document.components.schemas[i])

\* the operations of doc under all eight HTTP methods, as <<path index, key index>>
EveryOperation(doc) ==
    {k \in (DOMAIN doc.paths.entries) \X (1..5) :
        /\ k[2] \in DOMAIN doc.paths.entries[k[1]].item.ops
        /\ doc.paths.entries[k[1]].item.ops[k[2]].method
              \in {"get", "post", "put", "patch", "delete", "options", "head", "trace"}}

\* weight * with / of, left out when of = 0
RatioTerm(weight, with, of) == IF of = 0 THEN Num(0) ELSE Rat(weight * with, of)

\* 3 + 8 * operations + 4 * parameters + 3 * responses + 2 * path items, each a ratio
DescriptionScoreByRatios(doc) ==
    LET ops == EveryOperation(doc)
        described == {k \in ops : OpAt(doc, k).description > 5}
        parameters == SumOver(ops, [k \in ops |-> Len(OpAt(doc, k).parameters)])
        describedParameters ==
            SumOver(ops, [k \in ops |->
                Cardinality({j \in DOMAIN OpAt(doc, k).parameters : OpAt(doc, k).parameters[j]})])
        responses == SumOver(ops, [k \in ops |-> Len(OpAt(doc, k).responses)])
        describedResponses ==
            SumOver(ops, [k \in ops |->
                Cardinality({j \in DOMAIN OpAt(doc, k).responses :
                                OpAt(doc, k).responses[j].description > 0})])
        items == DOMAIN doc.paths.entries
        describedItems == {i \in items : doc.paths.entries[i].item.description > 0}
    IN Plus(Plus(Plus(Plus(IF doc.info.description > 10 THEN Num(3) ELSE Num(0),
                           RatioTerm(8, Cardinality(described), Cardinality(ops))),
                      RatioTerm(4, describedParameters, parameters)),
                 RatioTerm(3, describedResponses, responses)),
            RatioTerm(2, Cardinality(describedItems), Cardinality(items)))

\* C22: the Descriptions & Documentation score is the rounding of 3 (iff
\* info.description is longer than 10) + 8 * described operations / operations
\* + 4 * described parameters / parameters + 3 * described responses / responses
\* + 2 * described path items / path items, operations taken over all eight HTTP
\* methods and described meaning a description longer than 5; a ratio whose
\* denominator is 0 is left out, and the score never exceeds 20
C22_DescriptionScoreFormula ==
    Scored("Descriptions & Documentation")
    => /\ ResultOf("Descriptions & Documentation").score
             = MathRound(DescriptionScoreByRatios(document))
       /\ ResultOf("Descriptions & Documentation").percentage
             = Percentage(DescriptionScoreByRatios(document), 20)
       /\ ResultOf("Descriptions & Documentation").score \in 0..20

\* a document whose only operation is a described head, scored 8 + 4 + 3 = 15
C22_Witness ==
    /\ Scored("Descriptions & Documentation")
    /\ Len(document.paths.entries) = 1
    /\ MethodKeys(document.paths.entries[1].item) = {"head"}
    /\ document.info.description = 0
    /\ ResultOf("Descriptions & Documentation").score = 15

\* ^[a-z0-9-]+$
IsLowerKebab(segment) ==
    /\ Len(segment) > 0
    /\ \A i \in DOMAIN segment :
          segment[i] \in LowerCase \cup Digits \cup {"-"}

\* a segment that is a parameter in braces, as {id}
IsWrappedInBraces(segment) ==
    Len(segment) >= 2 /\ segment[1] = "{" /\ segment[Len(segment)] = "}"

\* a segment that begins with an opening brace
BeginsWithBrace(segment) == Len(segment) >= 1 /\ segment[1] = "{"

\* the non-empty pieces of the path between its slashes
Segments(path) == {Split(path)[i] : i \in DOMAIN Split(path)} \ {<<>>}

\* the path items that define both get and post
CrudItems(doc) ==
    {i \in DOMAIN doc.paths.entries :
        {"get", "post"} \subseteq MethodKeys(doc.paths.entries[i].item)}

\* the Paths & Operations result says so many of the paths are well named,
\* counts the path items with get and post, and has the score
\* wellNamed / pathCount * 7 + min(5, 2 * crudPaths), with 3 more when it
\* reports no overlap
PathsResultFor(doc, wellNamed) ==
    LET res == ResultOf("Paths & Operations")
        n == Len(doc.paths.entries)
        crud == Cardinality(CrudItems(doc))
        noOverlap == "No overlapping or redundant paths detected" \in Texts(res.feedback)
        unrounded == Plus(Plus(Rat(7 * Cardinality(wellNamed), n),
                               Num(IF 2 * crud > 5 THEN 5 ELSE 2 * crud)),
                          Num(IF noOverlap THEN 3 ELSE 0))
    IN /\ Msg("{0}/{1} paths follow RESTful naming conventions", <<Cardinality(wellNamed), n>>)
             \in Range(res.feedback)
       /\ crud > 0 => Msg("Found {0} CRUD-pattern endpoints", <<crud>>) \in Range(res.feedback)
       /\ res.score = MathRound(unrounded)
       /\ res.percentage = Percentage(unrounded, 15)

\* C23: for a document with at least one path, a path is well named iff every
\* segment that is not a {param} segment matches ^[a-z0-9-]+$; the evaluator
\* awards wellNamed / pathCount * 7, and min(5, 2 * crudPaths), a CRUD path being
\* one whose path item defines both get and post
C23_WellNamedOutsideParams ==
    (Scored("Paths & Operations") /\ Len(document.paths.entries) > 0)
    => PathsResultFor(document,
          {i \in DOMAIN document.paths.entries :
              \A segment \in Segments(document.paths.entries[i].path) :
                  IsWrappedInBraces(segment) \/ IsLowerKebab(segment)})

\* C23 as the code has it: a path is well named iff every non-empty segment
\* that does not begin with '{' matches ^[a-z0-9-]+$ (a segment such as
\* {id}.json is skipped whole); the awards are as above
C23_WellNamedOutsideBraceSegments ==
    (Scored("Paths & Operations") /\ Len(document.paths.entries) > 0)
    => PathsResultFor(document,
          {i \in DOMAIN document.paths.entries :
              \A segment \in Segments(document.paths.entries[i].path) :
                  BeginsWithBrace(segment) \/ IsLowerKebab(segment)})

\* /users/{id} and /User_Data were scored: one of two paths well named, both
\* with get and post
C23_Witness ==
    /\ Scored("Paths & Operations")
    /\ Len(document.paths.entries) = 2
    /\ document.paths.entries[1].path = PathPool[2]
    /\ document.paths.entries[2].path = PathPool[4]
    /\ Cardinality(CrudItems(document)) = 2
    /\ ResultOf("Paths & Operations").score = 11

\* the path with every segment in braces replaced by one placeholder
PatternOf(path) ==
    [i \in DOMAIN Split(path) |->
        IF IsWrappedInBraces(Split(path)[i]) THEN <<"{", "}">> ELSE Split(path)[i]]

\* the paths of doc less its distinct patterns
PathsBeyondPatterns(doc) ==
    Len(doc.paths.entries)
    - Cardinality({PatternOf(doc.paths.entries[i].path) : i \in DOMAIN doc.paths.entries})

\* C24: for a document with at least one path the evaluator awards the 3 points
\* of the no-overlap term iff the number of paths equals the number of distinct
\* patterns got by replacing every {param} segment of every path with one
\* placeholder; otherwise it reports the difference as the number of overlapping
\* paths and adds the redundancy suggestion
C24_NoOverlapTerm ==
    (Scored("Paths & Operations") /\ Len(document.paths.entries) > 0)
    => LET res == ResultOf("Paths & Operations")
           doc == document
           n == Len(doc.paths.entries)
           wellNamed == Cardinality({i \in DOMAIN doc.paths.entries :
                                        isWellNamed(doc.paths.entries[i].path)})
           crud == Cardinality(CrudItems(doc))
           base == Plus(Rat(7 * wellNamed, n), Num(IF 2 * crud > 5 THEN 5 ELSE 2 * crud))
           beyond == PathsBeyondPatterns(doc)
       IN IF beyond = 0
          THEN /\ res.score = MathRound(Plus(base, Num(3)))
               /\ "No overlapping or redundant paths detected" \in Texts(res.feedback)
               /\ "Review path structure for redundancy" \notin Texts(res.suggestions)
          ELSE /\ res.score = MathRound(base)
               /\ Msg("{0} potentially overlapping paths detected", <<beyond>>)
                     \in Range(res.feedback)
               /\ "Review path structure for redundancy" \in Texts(res.suggestions)

\* the operations of doc under get, post, put, patch and delete
FiveMethodOperations(doc) ==
    {k \in (DOMAIN doc.paths.entries) \X (1..5) :
        /\ k[2] \in DOMAIN doc.paths.entries[k[1]].item.ops
        /\ doc.paths.entries[k[1]].item.ops[k[2]].method
              \in {"get", "post", "put", "patch", "delete"}}

\* the status keys of an operation whose first character is one of firsts
KeysBeginning(operation, firsts) ==
    {j \in DOMAIN operation.responses :
        /\ Len(operation.responses[j].code) > 0
        /\ operation.responses[j].code[1] \in firsts}

\* 6 * with success / total + 6 * with error / total + 3 * with several keys / total
ResponseScoreByRatios(doc) ==
    LET ops == FiveMethodOperations(doc)
        total == Cardinality(ops)
        success == Cardinality({k \in ops : KeysBeginning(OpAt(doc, k), {"2"}) # {}})
        errors == Cardinality({k \in ops : KeysBeginning(OpAt(doc, k), {"4", "5"}) # {}})
        several == Cardinality({k \in ops : Len(OpAt(doc, k).responses) > 1})
    IN Plus(Plus(RatioTerm(6, success, total), RatioTerm(6, errors, total)),
            RatioTerm(3, several, total))

\* C25: for a document with paths the Response Codes score is the rounding of
\* 6 * (operations with a status key starting with '2') / total
\* + 6 * (operations with a key starting with '4' or '5') / total
\* + 3 * (operations with more than one status key) / total, over the operations
\* of get/post/put/patch/delete; whether the codes used meet the sets
\* {200,201,202,204} and {400,401,403,404,409,422,500} changes findings and
\* suggestions only
C25_ResponseScoreFormula ==
    (Scored("Response Codes") /\ document.paths.present)
    => LET res == ResultOf("Response Codes")
           used == UNION {ResponseKeys(OpAt(document, k)) : k \in FiveMethodOperations(document)}
           canonical == /\ used \cap appropriateSuccessCodes # {}
                        /\ used \cap appropriateErrorCodes # {}
       IN /\ res.score = MathRound(ResponseScoreByRatios(document))
          /\ res.percentage = Percentage(ResponseScoreByRatios(document), 15)
          /\ canonical <=> "Uses appropriate HTTP status codes" \in Texts(res.feedback)
          /\ ~canonical
                <=> "Use standard HTTP status codes (200, 201, 400, 404, 500, etc.)"
                       \in Texts(res.suggestions)

\* the only error code used is 503, outside the canonical set: the error term
\* is awarded all the same (6 * 1/2 + 6 * 1/2 + 3 * 1/2 = 7.5), and the finding
\* 'Uses appropriate HTTP status codes' is withheld
C25_Witness ==
    /\ Scored("Response Codes")
    /\ Len(document.paths.entries) = 1
    /\ MethodKeys(document.paths.entries[1].item) = {"delete", "patch", "trace"}
    /\ ResultOf("Response Codes").score = 8
    /\ "Uses appropriate HTTP status codes" \notin Texts(ResultOf("Response Codes").feedback)

\* a media type list with an example or examples on one entry at least
SomeExample(mediaTypes) == \E i \in DOMAIN mediaTypes : mediaTypes[i].example

\* 5 * bodies with an example / bodies + 5 * content responses with an example / content responses
ExampleScoreByRatios(doc) ==
    LET ops == FiveMethodOperations(doc)
        bodies == {k \in ops : OpAt(doc, k).requestBody.kind = "content"}
        exampleBodies == {k \in bodies : SomeExample(OpAt(doc, k).requestBody.content)}
        withContent == {kj \in ops \X (1..3) :
                           /\ kj[2] \in DOMAIN OpAt(doc, kj[1]).responses
                           /\ OpAt(doc, kj[1]).responses[kj[2]].hasContent}
        exampleResponses ==
            {kj \in withContent : SomeExample(OpAt(doc, kj[1]).responses[kj[2]].content)}
    IN Plus(RatioTerm(5, Cardinality(exampleBodies), Cardinality(bodies)),
            RatioTerm(5, Cardinality(exampleResponses), Cardinality(withContent)))

\* C26: for a document with paths the Examples & Samples score is the rounding
\* of 5 * (operations with a request body of which a media type has example or
\* examples) / (operations with a request body) + 5 * (responses with content of
\* which a media type has an example) / (responses with content), over
\* get/post/put/patch/delete; a term whose denominator is 0 is 0, so a document
\* without request bodies scores 5 at most
C26_ExampleScoreFormula ==
    (Scored("Examples & Samples") /\ document.paths.present)
    => LET res == ResultOf("Examples & Samples")
       IN /\ res.score = MathRound(ExampleScoreByRatios(document))
          /\ res.percentage = Percentage(ExampleScoreByRatios(document), 10)
          /\ (\A k \in FiveMethodOperations(document) :
                 OpAt(document, k).requestBody.kind # "content")
                => res.score <= 5

\* one of two request bodies and one of three responses with content carry an
\* example: 2.5 + 5/3, scored 4
C26_Witness ==
    /\ Scored("Examples & Samples")
    /\ Len(document.paths.entries) = 1
    /\ MethodKeys(document.paths.entries[1].item) = {"get", "post"}
    /\ Msg("{0}/{1} request bodies have examples", <<1, 2>>)
          \in Range(ResultOf("Examples & Samples").feedback)
    /\ Msg("{0}/{1} responses have examples", <<1, 3>>)
          \in Range(ResultOf("Examples & Samples").feedback)
    /\ ResultOf("Examples & Samples").score = 4

\* the operations of get/post/put/patch/delete that carry a security entry
SecuredOperations(doc) ==
    {k \in FiveMethodOperations(doc) : OpAt(doc, k).security # "absent"}

\* min(5, 2 * schemes) + 3 for a non-empty global list + 2 * secured / operations
SecurityScoreByTerms(doc) ==
    LET schemes == doc.components.securitySchemes
    IN Plus(Plus(Num(IF 2 * schemes > 5 THEN 5 ELSE 2 * schemes),
                 Num(IF doc.security = "set" THEN 3 ELSE 0)),
            RatioTerm(2, Cardinality(SecuredOperations(doc)),
                      Cardinality(FiveMethodOperations(doc))))

\* no scheme, no non-empty global security list, no operation with a security entry
NothingSecured(doc) ==
    /\ doc.components.securitySchemes = 0
    /\ doc.security # "set"
    /\ SecuredOperations(doc) = {}

PopulatedCategories(doc) ==
    (IF doc.components.schemas # <<>> THEN 1 ELSE 0)
    + (IF doc.components.responses > 0 THEN 1 ELSE 0)
    + (IF doc.components.parameters > 0 THEN 1 ELSE 0)
    + (IF doc.components.examples > 0 THEN 1 ELSE 0)
    + (IF doc.components.requestBodies > 0 THEN 1 ELSE 0)
    + (IF doc.components.headers > 0 THEN 1 ELSE 0)

\* 2 for servers, 2 for a version other than 1.0.0, 3 * tagged / operations,
\* 2 for more than one populated category, 1 for externalDocs
PracticeScoreByTerms(doc) ==
    LET ops == FiveMethodOperations(doc)
        tagged == {k \in ops : OpAt(doc, k).tags > 0}
        fixed == (IF doc.servers > 0 THEN 2 ELSE 0)
                 + (IF doc.info.version \notin {"", "1.0.0"} THEN 2 ELSE 0)
                 + (IF PopulatedCategories(doc) > 1 THEN 2 ELSE 0)
                 + (IF doc.externalDocs THEN 1 ELSE 0)
    IN Plus(Num(fixed), RatioTerm(3, Cardinality(tagged), Cardinality(ops)))

\* C28: the Best Practices score is the rounding of 2 (iff servers is non-empty)
\* + 2 (iff info.version is set and is not '1.0.0') + 3 * (operations with a
\* non-empty tags list) / (operations of get/post/put/patch/delete) + 2 (iff
\* more than one of schemas, responses, parameters, examples, requestBodies,
\* headers is non-empty) + 1 (iff externalDocs is declared); one populated
\* category, or version '1.0.0', earns neither +2
C28_PracticeScoreFormula ==
    Scored("Best Practices")
    => LET res == ResultOf("Best Practices")
       IN /\ res.score = MathRound(PracticeScoreByTerms(document))
          /\ res.percentage = Percentage(PracticeScoreByTerms(document), 10)
          /\ (PopulatedCategories(document) <= 1 /\ document.info.version = "1.0.0")
                => /\ res.score <= 6
                   /\ "API version: {version}" \notin Texts(res.feedback)
                   /\ "Uses {0} component types for reusability" \notin Texts(res.feedback)

\* version 1.0.0 and parameters the one populated category: with a server,
\* externalDocs and an untagged operation the score is 2 + 1
C28_Witness ==
    /\ Scored("Best Practices")
    /\ document.info.version = "1.0.0"
    /\ PopulatedCategories(document) = 1
    /\ document.components.parameters > 0
    /\ document.servers > 0
    /\ document.externalDocs
    /\ Cardinality(FiveMethodOperations(document)) = 1
    /\ ResultOf("Best Practices").score = 3

\* the source starts with http:// or https://
IsWebAddress(src) ==
    \/ Len(src) >= 7 /\ SubSeq(src, 1, 7) = <<"h", "t", "t", "p", ":", "/", "/">>
    \/ Len(src) >= 8 /\ SubSeq(src, 1, 8) = <<"h", "t", "t", "p", "s", ":", "/", "/">>

\* the first character of the text that is not white space is an opening brace
OpensWithBrace(text) ==
    \E i \in DOMAIN text.head :
        /\ text.head[i] = "{"
        /\ \A j \in 1..(i - 1) : text.head[j] \in {" ", "\n"}

\* the decoding step was reached, and whether it raised
DecodingTried == Len(calls) >= 2 /\ calls[2] = "parseContent"

DecodingFailed == DecodingTried /\ Len(calls) >= 3 /\ calls[3] = "throw"

\* C29: parse fetches the source iff it starts with 'http://' or 'https://' and
\* reads it as a file otherwise; the text is JSON-parsed iff its trimmed content
\* starts with '{' and YAML-decoded otherwise, with no second attempt by the
\* other decoder; a decoding failure of either kind is one error whose message
\* begins 'Failed to parse OpenAPI spec from <source>'
C29_RetrievalAndDecoding ==
    /\ calls # <<>>
          => calls[1] = IF IsWebAddress(source) THEN "fetch" ELSE "readFile"
    /\ DecodingTried
          => (DecodingFailed
                <=> ~(IF OpensWithBrace(content) THEN content.json ELSE content.yaml))
    /\ (DecodingFailed /\ pc = "validate:catch")
          => /\ pending.isError
             /\ pending.message.text = "Failed to parse OpenAPI spec from {source}: {cause}"
             /\ pending.message.args = <<source>>
    /\ (DecodingFailed /\ pc = "validate:returned")
          => /\ Len(result.errors) = 1
             /\ result.errors[1].args[1].text
                   = "Failed to parse OpenAPI spec from {source}: {cause}"
             /\ result.errors[1].args[1].args = <<source>>

\* the file httpd.yaml was read, not fetched, and its text, a brace that is a
\* YAML flow mapping but no JSON, was given to JSON.parse alone and rejected
C29_Witness ==
    /\ pc = "validate:returned"
    /\ source = <<"h", "t", "t", "p", "d", ".", "y", "a", "m", "l">>
    /\ calls = <<"readFile", "parseContent", "throw">>
    /\ content.yaml
    /\ ~content.json
    /\ OpensWithBrace(content)

\* C30: in every result validateSpec returns, isValid is true iff errors is
\* empty; a failed result carries exactly one error (the first failure stops
\* the pipeline), no warnings, no document and no stats, so warnings are
\* computed only for documents that passed SwaggerParser.validate
C30_ResultShape ==
    pc = "validate:returned"
    => /\ result.isValid <=> result.errors = <<>>
       /\ ~result.isValid
             => /\ Len(result.errors) = 1
                /\ result.warnings = <<>>
                /\ ~result.hasDocument
                /\ ~result.hasStats
                /\ result.stats = NoStats
       /\ result.isValid
             => /\ result.hasDocument
                /\ result.hasStats
                /\ Accepted
       /\ result.warnings # <<>> => Accepted

\* a fetched document that SwaggerParser.validate rejected with a
\* ValidatorError: one error under its own heading, nothing else
C30_Witness ==
    /\ pc = "validate:returned"
    /\ calls = <<"fetch", "parseContent", "SwaggerParser.validate", "throw">>
    /\ Len(result.errors) = 1
    /\ result.errors[1].text = "Schema Validation Error: {message}"
    /\ result.warnings = <<>>
    /\ ~result.hasDocument

====
